---- MODULE Spec2Model ----
(***************************************************************************)
(* Model of other/bootstrap_daemon/src/tox-bootstrapd.c: the configuration *)
(* loader, the key manager, the bootstrap list processor and main(), the   *)
(* daemon's startup sequence and service loop.                             *)
(*                                                                         *)
(* C ints that act as booleans are kept as 0/1.  A C string is the         *)
(* sequence of its characters (codes 1..255) without the terminator; a     *)
(* char buffer is the sequence of all its bytes.                           *)
(***************************************************************************)
EXTENDS Integers, Sequences, FiniteSets, TLC

\* ------------------------------------------------------------------------
\* Program constants
\* ------------------------------------------------------------------------
DEFAULT_PORT == 33445
DEFAULT_ENABLE_IPV6 == 1
DEFAULT_ENABLE_IPV4_FALLBACK == 1
DEFAULT_ENABLE_LAN_DISCOVERY == 1
DEFAULT_ENABLE_TCP_RELAY == 1
DEFAULT_TCP_RELAY_PORTS == <<443, 3389, 33445>>
DEFAULT_TCP_RELAY_PORTS_COUNT == 3
DEFAULT_ENABLE_MOTD == 1
MIN_ALLOWED_PORT == 1
MAX_ALLOWED_PORT == 65535

\* "tox-bootstrapd", the daemon's name (global.h)
DAEMON_NAME == <<116, 111, 120, 45, 98, 111, 111, 116, 115, 116, 114, 97, 112, 100>>
DEFAULT_MOTD == DAEMON_NAME
\* the longest MOTD, terminator included (bootstrap_node_packets.c)
MAX_MOTD_LENGTH == 256

crypto_box_PUBLICKEYBYTES == 32
crypto_box_SECRETKEYBYTES == 32
KEYS_SIZE == crypto_box_PUBLICKEYBYTES + crypto_box_SECRETKEYBYTES

\* ------------------------------------------------------------------------
\* Bounds of the model
\* ------------------------------------------------------------------------
\* longest tcp_relay_ports array of the loader's input space
MaxPorts == 2
\* launches of the daemon over one file system
MaxRuns == 2
\* distinct keypairs the engine can generate
MaxKeySeeds == 2
\* how many times the clock advances while the service loop is watched
MaxTime == 3
\* longest command line after the program name
MaxArgs == 3
\* longest bootstrap_nodes list of the bootstrap processor's input space
MaxNodes == 2

\* ------------------------------------------------------------------------
\* Integer conversions
\* ------------------------------------------------------------------------
\* int -> uint16_t, as the assignment to a uint16_t object converts
ToUint16(v) == v % 65536

\* ------------------------------------------------------------------------
\* libconfig settings: a setting is [kind, val]; kind "absent" is a name the
\* file does not define.  config_lookup_<type> succeeds only on a setting of
\* that type.
\* ------------------------------------------------------------------------
Absent == [kind |-> "absent", val |-> 0]
IntS(n) == [kind |-> "int", val |-> n]
BoolS(b) == [kind |-> "bool", val |-> b]
StrS(s) == [kind |-> "string", val |-> s]
ArrS(a) == [kind |-> "array", val |-> a]
ListS(l) == [kind |-> "list", val |-> l]

\* a string of n characters, each position its own character
Text(n) == [i \in 1..n |-> 1 + (i % 255)]

\* config_lookup_int / config_lookup_bool / config_lookup_string:
\* CONFIG_TRUE iff the setting exists and has the requested type
config_lookup_int(s) == s.kind = "int"
config_lookup_bool(s) == s.kind = "bool"
config_lookup_string(s) == s.kind = "string"
config_setting_is_array(s) == s.kind = "array"
config_setting_is_number(e) == e.kind = "int"

\* ------------------------------------------------------------------------
\* parse_tcp_relay_ports_config
\* ------------------------------------------------------------------------
\* the range check of a stored relay port: the operand is the uint16_t slot
RelayPortInvalid(stored) == stored < MIN_ALLOWED_PORT \/ stored > MAX_ALLOWED_PORT

\* the value written to the uint16_t slot (*tcp_relay_ports)[count]
StoreRelayPort(v) == ToUint16(v)

\* the for loop over the array's elements: acc is the filled part of
\* *tcp_relay_ports, Len(acc) is *tcp_relay_port_count
RECURSIVE CollectPorts(_, _, _)
CollectPorts(elems, i, acc) ==
    IF i > Len(elems) THEN acc
    ELSE IF ~config_setting_is_number(elems[i]) THEN CollectPorts(elems, i + 1, acc)
    ELSE IF RelayPortInvalid(StoreRelayPort(elems[i].val)) THEN CollectPorts(elems, i + 1, acc)
    ELSE CollectPorts(elems, i + 1, Append(acc, StoreRelayPort(elems[i].val)))

\* the for loop over default_ports
RECURSIVE CollectDefaultPorts(_, _)
CollectDefaultPorts(i, acc) ==
    IF i > DEFAULT_TCP_RELAY_PORTS_COUNT THEN acc
    ELSE IF RelayPortInvalid(StoreRelayPort(DEFAULT_TCP_RELAY_PORTS[i]))
         THEN CollectDefaultPorts(i + 1, acc)
    ELSE CollectDefaultPorts(i + 1, Append(acc, StoreRelayPort(DEFAULT_TCP_RELAY_PORTS[i])))

\* the memory *tcp_relay_ports points to after the loops: the realloc'ed
\* block, or NULL when no port was kept
PortsBlock(acc) ==
    IF Len(acc) > 0 THEN [mem |-> "heap", data |-> acc] ELSE [mem |-> "null", data |-> <<>>]

\* a parser that treats a setting of the wrong type as a missing one
parse_tcp_relay_ports_config_lenient(s) ==
    IF s.kind = "absent" \/ ~config_setting_is_array(s)
    THEN [ports |-> PortsBlock(CollectDefaultPorts(1, <<>>)),
          count |-> Len(CollectDefaultPorts(1, <<>>)),
          log |-> {"no_tcp_relay_ports_setting", "using_default_tcp_relay_ports"}]
    ELSE IF Len(s.val) = 0
    THEN [ports |-> [mem |-> "uninit", data |-> <<>>], count |-> 0,
          log |-> {"tcp_relay_ports_is_empty"}]
    ELSE [ports |-> PortsBlock(CollectPorts(s.val, 1, <<>>)),
          count |-> Len(CollectPorts(s.val, 1, <<>>)),
          log |-> {}]

\* result: the pointer (mem "uninit": never assigned), the count, the log
parse_tcp_relay_ports_config(s) ==
    IF s.kind = "absent"
    THEN [ports |-> PortsBlock(CollectDefaultPorts(1, <<>>)),
          count |-> Len(CollectDefaultPorts(1, <<>>)),
          log |-> {"no_tcp_relay_ports_setting", "using_default_tcp_relay_ports"}]
    ELSE IF ~config_setting_is_array(s)
    THEN [ports |-> [mem |-> "uninit", data |-> <<>>], count |-> 0,
          log |-> {"tcp_relay_ports_should_be_array"}]
    ELSE IF Len(s.val) = 0
    THEN [ports |-> [mem |-> "uninit", data |-> <<>>], count |-> 0,
          log |-> {"tcp_relay_ports_is_empty"}]
    ELSE [ports |-> PortsBlock(CollectPorts(s.val, 1, <<>>)),
          count |-> Len(CollectPorts(s.val, 1, <<>>)),
          log |-> {}]

\* ------------------------------------------------------------------------
\* get_general_config
\* ------------------------------------------------------------------------
\* an int option: the configured value, or the default when the lookup fails
LookupInt(s, default) == IF config_lookup_int(s) THEN s.val ELSE default
\* a lookup that leaves the option cleared when the setting is missing
LookupBoolNoDefault(s, default) == IF config_lookup_bool(s) THEN s.val ELSE 0
LookupBool(s, default) == IF config_lookup_bool(s) THEN s.val ELSE default
LookupString(s, default) == IF config_lookup_string(s) THEN s.val ELSE default

\* a buffer sized by the text alone
MotdLengthOfText(tmp_motd) == Len(tmp_motd) + 1
\* the size of the malloc'ed MOTD buffer
MotdLength(tmp_motd) ==
    IF Len(tmp_motd) + 1 > MAX_MOTD_LENGTH THEN MAX_MOTD_LENGTH ELSE Len(tmp_motd) + 1

\* strncpy(*motd, tmp_motd, motd_length); (*motd)[motd_length - 1] = '\0'
MotdBuffer(tmp_motd) ==
    [i \in 1..MotdLength(tmp_motd) |->
        IF i = MotdLength(tmp_motd) THEN 0
        ELSE IF i <= Len(tmp_motd) THEN tmp_motd[i] ELSE 0]

\* the C string a buffer holds: the bytes before the first terminator
CString(buf) ==
    LET zeros == {i \in DOMAIN buf : buf[i] = 0}
        first == CHOOSE i \in zeros : \A j \in zeros : i <= j
    IN IF zeros = {} THEN buf ELSE SubSeq(buf, 1, first - 1)

\* the relay part of the loader: parsed only when relay is enabled
RelayPart(cfg, relay) ==
    IF relay # 0 THEN parse_tcp_relay_ports_config(cfg.tcp_relay_ports)
    ELSE [ports |-> [mem |-> "uninit", data |-> <<>>], count |-> 0, log |-> {}]

\* the MOTD part of the loader: the buffer, or no buffer when MOTD is off
MotdPart(cfg, emotd) ==
    IF emotd # 0
    THEN [mem |-> "heap", data |-> MotdBuffer(LookupString(cfg.motd, DEFAULT_MOTD))]
    ELSE [mem |-> "uninit", data |-> <<>>]

DefaultNotice(name, found) == IF found THEN {} ELSE {"using_default_" \o name}

get_general_config(cfg) ==
    IF ~cfg.parses
    THEN [ret |-> 0, log |-> {"config_read_error"}]
    ELSE LET relay == LookupBool(cfg.enable_tcp_relay, DEFAULT_ENABLE_TCP_RELAY)
             emotd == LookupBool(cfg.enable_motd, DEFAULT_ENABLE_MOTD)
             rp == RelayPart(cfg, relay)
         IN [ret |-> 1,
             port |-> LookupInt(cfg.port, DEFAULT_PORT),
             enable_ipv6 |-> LookupBool(cfg.enable_ipv6, DEFAULT_ENABLE_IPV6),
             enable_ipv4_fallback |->
                 LookupBool(cfg.enable_ipv4_fallback, DEFAULT_ENABLE_IPV4_FALLBACK),
             enable_lan_discovery |->
                 LookupBool(cfg.enable_lan_discovery, DEFAULT_ENABLE_LAN_DISCOVERY),
             enable_tcp_relay |-> relay,
             tcp_relay_ports |-> rp.ports,
             tcp_relay_port_count |-> rp.count,
             enable_motd |-> emotd,
             motd |-> MotdPart(cfg, emotd),
             log |-> rp.log
                 \cup DefaultNotice("port", config_lookup_int(cfg.port))
                 \cup DefaultNotice("enable_ipv6", config_lookup_bool(cfg.enable_ipv6))
                 \cup DefaultNotice("enable_ipv4_fallback",
                                    config_lookup_bool(cfg.enable_ipv4_fallback))
                 \cup DefaultNotice("enable_lan_discovery",
                                    config_lookup_bool(cfg.enable_lan_discovery))
                 \cup DefaultNotice("enable_tcp_relay",
                                    config_lookup_bool(cfg.enable_tcp_relay))
                 \cup DefaultNotice("enable_motd", config_lookup_bool(cfg.enable_motd))
                 \cup (IF emotd # 0
                       THEN DefaultNotice("motd", config_lookup_string(cfg.motd))
                       ELSE {})
                 \cup (IF relay # 0 /\ rp.count = 0 THEN {"no_tcp_ports_could_be_read"}
                       ELSE {})
                 \cup {"successfully_read"}]

\* ------------------------------------------------------------------------
\* bootstrap_from_config
\* ------------------------------------------------------------------------
\* DHT_bootstrap_from_address (the engine's): whether the address resolves;
\* an IPv6-only address resolves only with IPv6 enabled
DHT_bootstrap_from_address(address, ipv6) ==
    \/ address = "v4.example"
    \/ address = "v6.example" /\ ipv6 # 0

BootstrapPortInvalid(bs_port) == bs_port < MIN_ALLOWED_PORT \/ bs_port > MAX_ALLOWED_PORT

\* a body that checks the port's range before the key's length
BootstrapNodePortFirst(node, ipv6) ==
    IF ~config_lookup_string(node.public_key) THEN "no_public_key"
    ELSE IF ~config_lookup_int(node.port) THEN "no_port"
    ELSE IF ~config_lookup_string(node.address) THEN "no_address"
    ELSE IF BootstrapPortInvalid(node.port.val) THEN "invalid_port"
    ELSE IF Len(node.public_key.val) # crypto_box_PUBLICKEYBYTES * 2 THEN "invalid_public_key"
    ELSE IF ~DHT_bootstrap_from_address(node.address.val, ipv6) THEN "invalid_address"
    ELSE "added"

\* one pass of the while loop's body on the head element: the outcome logged
BootstrapNode(node, ipv6) ==
    IF ~config_lookup_string(node.public_key) THEN "no_public_key"
    ELSE IF ~config_lookup_int(node.port) THEN "no_port"
    ELSE IF ~config_lookup_string(node.address) THEN "no_address"
    ELSE IF Len(node.public_key.val) # crypto_box_PUBLICKEYBYTES * 2 THEN "invalid_public_key"
    ELSE IF BootstrapPortInvalid(node.port.val) THEN "invalid_port"
    ELSE IF ~DHT_bootstrap_from_address(node.address.val, ipv6) THEN "invalid_address"
    ELSE "added"

\* whether the body reached the engine's call for this element
BootstrapCalled(node, ipv6) == BootstrapNode(node, ipv6) \in {"invalid_address", "added"}

\* a loop that gives up at the first entry it cannot add
RECURSIVE BootstrapLoopStopping(_, _, _, _)
BootstrapLoopStopping(node_list, i, ipv6, st) ==
    IF Len(node_list) = 0 \/ BootstrapNode(Head(node_list), ipv6) # "added"
    THEN [st EXCEPT !.remaining = node_list, !.iterations = i]
    ELSE BootstrapLoopStopping(Tail(node_list), i + 1, ipv6,
            [st EXCEPT !.outcomes = Append(@, <<i, "added">>),
                       !.calls = Append(@, Head(node_list))])

\* a loop that counts the entries added, not the entries processed
RECURSIVE BootstrapLoopCountingAdded(_, _, _, _)
BootstrapLoopCountingAdded(node_list, i, ipv6, st) ==
    IF Len(node_list) = 0 THEN [st EXCEPT !.remaining = node_list, !.iterations = i]
    ELSE BootstrapLoopCountingAdded(Tail(node_list),
            IF BootstrapNode(Head(node_list), ipv6) = "added" THEN i + 1 ELSE i, ipv6,
            [st EXCEPT !.outcomes = Append(@, <<i, BootstrapNode(Head(node_list), ipv6)>>),
                       !.calls = IF BootstrapCalled(Head(node_list), ipv6)
                                 THEN Append(@, Head(node_list)) ELSE @,
                       !.lengths = Append(@, Len(Tail(node_list)))])

\* the while loop: node_list is the working list, i the index logged;
\* st holds the engine calls made, the outcome logged per index and the
\* length of the working list after each config_setting_remove_elem
RECURSIVE BootstrapLoop(_, _, _, _)
BootstrapLoop(node_list, i, ipv6, st) ==
    IF Len(node_list) = 0 THEN [st EXCEPT !.remaining = node_list, !.iterations = i]
    ELSE BootstrapLoop(Tail(node_list), i + 1, ipv6,
            [st EXCEPT !.outcomes = Append(@, <<i, BootstrapNode(Head(node_list), ipv6)>>),
                       !.calls = IF BootstrapCalled(Head(node_list), ipv6)
                                 THEN Append(@, Head(node_list)) ELSE @,
                       !.lengths = Append(@, Len(Tail(node_list)))])

NoBootstrap(ret, tag) ==
    [ret |-> ret, calls |-> <<>>, outcomes |-> <<>>, lengths |-> <<>>, remaining |-> <<>>,
     iterations |-> 0, log |-> {tag}]

\* parses: whether this second, independent read of the file succeeded
bootstrap_from_config(cfg, parses, ipv6) ==
    IF ~parses THEN NoBootstrap(0, "config_read_error")
    ELSE IF cfg.bootstrap_nodes.kind = "absent" THEN NoBootstrap(1, "no_bootstrap_nodes_setting")
    ELSE IF cfg.bootstrap_nodes.kind # "list" \/ Len(cfg.bootstrap_nodes.val) = 0
    THEN NoBootstrap(1, "no_bootstrap_nodes_found")
    ELSE BootstrapLoop(cfg.bootstrap_nodes.val, 0, ipv6,
                       [NoBootstrap(1, "bootstrap_nodes_processed")
                            EXCEPT !.remaining = cfg.bootstrap_nodes.val])

\* ------------------------------------------------------------------------
\* manage_keys
\* ------------------------------------------------------------------------
\* a key the engine generates: n bytes from a seed
KeyBytes(seed, n) == [i \in 1..n |-> (seed * 37 + i * 11) % 256]
FreshPublicKey(seed) == KeyBytes(seed, crypto_box_PUBLICKEYBYTES)
FreshSecretKey(seed) == KeyBytes(seed + 100, crypto_box_SECRETKEYBYTES)

NoFile == [exists |-> FALSE, data |-> <<>>]
File(data) == [exists |-> TRUE, data |-> data]

\* fread(keys, 1, KEYS_SIZE, keys_file): the number of bytes read
FreadSize(file) == IF Len(file.data) < KEYS_SIZE THEN Len(file.data) ELSE KEYS_SIZE

\* the buffer keys[KEYS_SIZE] after the fread: the bytes read, then what the
\* array held before, which the code does not read (shown as 0)
FreadBuffer(file) ==
    [i \in 1..KEYS_SIZE |-> IF i <= FreadSize(file) THEN file.data[i] ELSE 0]

\* a check that only refuses an empty read
KeysReadOkUnlessEmpty(read_size) == read_size > 0
\* the check of read_size, line 95: whether the load goes on
KeysReadOk(read_size) == read_size = KEYS_SIZE

\* a load that takes the public key from the secret key's place
LoadedPublicKeyFromEnd(keys) == SubSeq(keys, crypto_box_SECRETKEYBYTES + 1, KEYS_SIZE)
\* the two memcpy of the load branch
LoadedPublicKey(keys) == SubSeq(keys, 1, crypto_box_PUBLICKEYBYTES)
LoadedSecretKey(keys) == SubSeq(keys, crypto_box_PUBLICKEYBYTES + 1, KEYS_SIZE)

\* the two memcpy of the save branch
KeysBuffer(public_key, secret_key) == public_key \o secret_key

\* a key manager that writes a new keypair over a file too short to load
manage_keys_replacing(self_public_key, self_secret_key, file, open_w, write_size) ==
    IF file.exists /\ KeysReadOk(FreadSize(file))
    THEN [ret |-> 1, branch |-> "load",
          public_key |-> LoadedPublicKey(FreadBuffer(file)),
          secret_key |-> LoadedSecretKey(FreadBuffer(file)),
          file |-> file]
    ELSE IF ~open_w
         THEN [ret |-> 0, branch |-> "save", public_key |-> self_public_key,
               secret_key |-> self_secret_key, file |-> file]
         ELSE [ret |-> IF write_size # KEYS_SIZE THEN 0 ELSE 1,
               branch |-> "save", public_key |-> self_public_key,
               secret_key |-> self_secret_key,
               file |-> File(SubSeq(KeysBuffer(self_public_key, self_secret_key),
                                    1, write_size))]

\* open_w: whether fopen(path, "w") succeeded; write_size: what fwrite returned.
\* result: ret, the DHT's keys and the key file afterwards
manage_keys(self_public_key, self_secret_key, file, open_w, write_size) ==
    IF file.exists
    THEN IF ~KeysReadOk(FreadSize(file))
         THEN [ret |-> 0, branch |-> "load", public_key |-> self_public_key,
               secret_key |-> self_secret_key, file |-> file]
         ELSE [ret |-> 1, branch |-> "load",
               public_key |-> LoadedPublicKey(FreadBuffer(file)),
               secret_key |-> LoadedSecretKey(FreadBuffer(file)),
               file |-> file]
    ELSE IF ~open_w
         THEN [ret |-> 0, branch |-> "save", public_key |-> self_public_key,
               secret_key |-> self_secret_key, file |-> file]
         ELSE [ret |-> IF write_size # KEYS_SIZE THEN 0 ELSE 1,
               branch |-> "save", public_key |-> self_public_key,
               secret_key |-> self_secret_key,
               file |-> File(SubSeq(KeysBuffer(self_public_key, self_secret_key),
                                    1, write_size))]

\* ------------------------------------------------------------------------
\* handle_command_line_arguments
\* ------------------------------------------------------------------------
\* What getopt_long returns for one element of argv after the program name:
\* 'h', 'v', 'c' with its argument, 'l' with its argument (syslog, stdout or
\* another word), '?' for an option the table does not hold, ':' for an option
\* whose argument is missing; an operand is an element getopt_long passes over
Options == {"help", "version", "config", "log_syslog", "log_stdout", "log_other", "unknown",
            "operand"}

\* the option that lacks its argument: it can only be the last element, as
\* an element that follows it is taken as its argument
MissingArgument == "missing_argument"

\* the path --config names
ConfigPath == "tox-bootstrapd.conf"

\* an exit that reports success whatever the status asked for
CliExitSuccess(st, code, messages) == [st EXCEPT !.exit = 0, !.log = @ \cup messages]
\* exit(code) inside handle_command_line_arguments; st: the function's locals
CliExit(st, code, messages) == [st EXCEPT !.exit = code, !.log = @ \cup messages]

\* the while loop over getopt_long and its switch, lines 570-610
RECURSIVE GetoptLoop(_, _)
GetoptLoop(args, st) ==
    IF args = <<>> THEN st
    ELSE LET opt == Head(args) IN
         IF opt = "help" THEN CliExit(st, 0, {"usage"})
         ELSE IF opt = "config"
         THEN GetoptLoop(Tail(args), [st EXCEPT !.cfg_file_path = ConfigPath,
                                                !.cfg_file_path_set = TRUE])
         ELSE IF opt = "log_syslog"
         THEN GetoptLoop(Tail(args), [st EXCEPT !.log_backend = "syslog",
                                                !.log_backend_set = TRUE])
         ELSE IF opt = "log_stdout"
         THEN GetoptLoop(Tail(args), [st EXCEPT !.log_backend = "stdout",
                                                !.log_backend_set = TRUE])
         ELSE IF opt = "log_other" THEN CliExit(st, 1, {"invalid_backend_value", "usage"})
         ELSE IF opt = "version" THEN CliExit(st, 0, {"version"})
         ELSE IF opt = "unknown" THEN CliExit(st, 1, {"unrecognized_option", "usage"})
         ELSE IF opt = MissingArgument
         THEN CliExit(st, 1, {"no_argument_for_option", "usage"})
         ELSE GetoptLoop(Tail(args), st)

\* a parser that leaves the caller's backend when --log-backend is not given
handle_command_line_arguments_keeping(args, log_backend) ==
    LET st0 == [exit |-> -1, cfg_file_path |-> "unset", cfg_file_path_set |-> FALSE,
                log_backend |-> log_backend, log_backend_set |-> FALSE, log |-> {}]
    IN IF Len(args) + 1 < 2 THEN CliExit(st0, 1, {"no_arguments_provided", "usage"})
       ELSE LET st == GetoptLoop(args, st0)
            IN IF st.exit # -1 THEN st
               ELSE IF ~st.cfg_file_path_set
               THEN CliExit(st, 1, {"config_option_not_specified", "usage"})
               ELSE st

\* args: argv after the program name; log_backend: the caller's value.
\* result: exit is the status of exit(), or -1 when the function returns
handle_command_line_arguments(args, log_backend) ==
    LET st0 == [exit |-> -1, cfg_file_path |-> "unset", cfg_file_path_set |-> FALSE,
                log_backend |-> log_backend, log_backend_set |-> FALSE, log |-> {}]
    IN IF Len(args) + 1 < 2 THEN CliExit(st0, 1, {"no_arguments_provided", "usage"})
       ELSE LET st == GetoptLoop(args, st0)
                lb == IF st.log_backend_set THEN st ELSE [st EXCEPT !.log_backend = "syslog"]
            IN IF st.exit # -1 THEN st
               ELSE IF ~lb.cfg_file_path_set
               THEN CliExit(lb, 1, {"config_option_not_specified", "usage"})
               ELSE lb

\* ------------------------------------------------------------------------
\* Engine and library calls main() relies on
\* ------------------------------------------------------------------------
\* seconds between two LAN discovery broadcasts (LAN_discovery.h)
LAN_DISCOVERY_INTERVAL == 10

\* is_timeout (util.c): whether `timeout` seconds passed since `timestamp`
is_timeout(timestamp, timeout, unix_time) == timestamp + timeout <= unix_time

\* the clock when a launch begins: far past any interval, as Unix time is
StartTime == 100 * LAN_DISCOVERY_INTERVAL

\* the seconds that pass between two readings of the clock, when any do
ClockStep == LAN_DISCOVERY_INTERVAL \div 2

\* fprintf(pidf, "%d", pid) of a positive pid: its decimal digits
RECURSIVE DecimalDigits(_)
DecimalDigits(n) == IF n < 10 THEN <<n>> ELSE Append(DecimalDigits(n \div 10), n % 10)

\* the process id fork() gives the child of the run-th launch
ChildPid(r) == 100 + r

\* ------------------------------------------------------------------------
\* State
\* ------------------------------------------------------------------------
VARIABLES
    argv,                   \* the command line after the program name
    stdout_isatty,          \* whether standard output is a terminal
    cfg_file_path,          \* main()'s local: the path --config named
    log_backend,            \* main()'s local: the logging backend
    cfg_file,               \* the settings file
    keys_file,              \* the identity key file
    pid_file,               \* the process-id file
    run,                    \* the number of the current launch
    pc,                     \* main()'s position in the launched process (the parent after fork)
    cpc,                    \* main()'s position in the forked child
    exit_code,              \* the launched process's exit status, -1 while it runs
    child_exit_code,        \* the child's exit status, -1 while it runs or does not exist
    port, enable_ipv6, enable_ipv4_fallback, enable_lan_discovery, enable_tcp_relay,
    tcp_relay_ports, tcp_relay_port_count, enable_motd, motd,   \* main()'s locals
    loaded,                 \* history: what get_general_config returned
    net,                    \* the Networking_Core: "none", "ipv6" or "ipv4"
    net_attempts,           \* calls of new_networking
    net_families,           \* history: the address family of each call of new_networking
    dht,                    \* the DHT object and its keys
    onion,                  \* whether onion and onion_a are constructed
    tcp_server,             \* the TCP_Server and the arguments it was built from
    bootstrap,              \* what bootstrap_from_config did
    keys_branch,            \* history: "load" or "save", the branch manage_keys took
    hist_keys,              \* history: the keypair a launch persisted in full
    log,                    \* the messages written so far in this launch
    stages,                 \* history: the stages completed in this launch, in order
    waiting_for_dht_connection, last_LANdiscovery,
    now,                    \* unix_time()
    isconnected,            \* the engine's state: whether the DHT has a live connection
    connected_logs,         \* how often the "Connected" line was written
    tick,                   \* history: the calls the current pass of the loop body made
    broadcasts              \* history: the clock at each send_LANdiscovery

fsvars == <<cfg_file, keys_file, pid_file>>
clivars == <<argv, stdout_isatty, cfg_file_path, log_backend>>
cfgvars == <<port, enable_ipv6, enable_ipv4_fallback, enable_lan_discovery, enable_tcp_relay,
             tcp_relay_ports, tcp_relay_port_count, enable_motd, motd, loaded>>
engvars == <<net, net_attempts, net_families, dht, onion, tcp_server, bootstrap>>
keyvars == <<keys_branch, hist_keys>>
loopvars == <<waiting_for_dht_connection, last_LANdiscovery, now, isconnected,
              connected_logs, tick, broadcasts>>
procvars == <<pc, cpc, exit_code, child_exit_code>>
vars == <<fsvars, run, clivars, procvars, cfgvars, engvars, keyvars, log, stages, loopvars>>

NoDHT == [made |-> FALSE, self_public_key |-> <<>>, self_secret_key |-> <<>>]
NoTCPServer == [made |-> FALSE, ipv6 |-> 0, ports |-> <<>>, secret_key |-> <<>>]
NoKeys == [set |-> FALSE, public_key |-> <<>>, secret_key |-> <<>>]
Unassigned == [mem |-> "uninit", data |-> <<>>]
NotLoaded == [ret |-> -1, log |-> {}]

LoopPcs == {"do_DHT", "LANdiscovery", "do_TCP_server", "networking_poll",
            "check_connection", "sleep"}

\* main()'s locals and objects as a launch begins; the locals are
\* indeterminate until get_general_config assigns them and are not read before
Start ==
    [pc |-> "handle_command_line_arguments", cpc |-> "none", exit_code |-> -1,
     child_exit_code |-> -1, cfg_file_path |-> "unset", log_backend |-> "unset",
     int |-> 0, ptr |-> Unassigned, loaded |-> NotLoaded,
     net |-> "none", net_attempts |-> 0, net_families |-> <<>>,
     dht |-> NoDHT, onion |-> FALSE,
     tcp_server |-> NoTCPServer, bootstrap |-> NoBootstrap(-1, "not_run"),
     keys_branch |-> "none", log |-> {}, stages |-> <<>>,
     waiting_for_dht_connection |-> 1, last_LANdiscovery |-> 0, now |-> StartTime,
     isconnected |-> FALSE, connected_logs |-> 0, tick |-> <<>>, broadcasts |-> <<>>]

StartOfMain ==
    /\ pc = Start.pc /\ cpc = Start.cpc
    /\ exit_code = Start.exit_code /\ child_exit_code = Start.child_exit_code
    /\ cfg_file_path = Start.cfg_file_path /\ log_backend = Start.log_backend
    /\ port = Start.int /\ enable_ipv6 = Start.int /\ enable_ipv4_fallback = Start.int
    /\ enable_lan_discovery = Start.int /\ enable_tcp_relay = Start.int
    /\ tcp_relay_ports = Start.ptr /\ tcp_relay_port_count = Start.int
    /\ enable_motd = Start.int /\ motd = Start.ptr /\ loaded = Start.loaded
    /\ net = Start.net /\ net_attempts = Start.net_attempts
    /\ net_families = Start.net_families /\ dht = Start.dht
    /\ onion = Start.onion /\ tcp_server = Start.tcp_server /\ bootstrap = Start.bootstrap
    /\ keys_branch = Start.keys_branch
    /\ log = Start.log /\ stages = Start.stages
    /\ waiting_for_dht_connection = Start.waiting_for_dht_connection
    /\ last_LANdiscovery = Start.last_LANdiscovery /\ now = Start.now
    /\ isconnected = Start.isconnected /\ connected_logs = Start.connected_logs
    /\ tick = Start.tick /\ broadcasts = Start.broadcasts

\* return <code> from main() before the fork, or in the parent
Exit(code) == pc' = "exited" /\ exit_code' = code

\* ------------------------------------------------------------------------
\* main(): the command line
\* ------------------------------------------------------------------------
\* line 629: the backend the log is opened with while the arguments are parsed
InitialLogBackend(isatty) == IF isatty THEN "stdout" ELSE "syslog"

\* lines 628-637; exit() inside handle_command_line_arguments ends the process
HandleCommandLineArguments ==
    /\ pc = "handle_command_line_arguments"
    /\ LET r == handle_command_line_arguments(argv, InitialLogBackend(stdout_isatty)) IN
         /\ log_backend' = r.log_backend
         /\ cfg_file_path' = r.cfg_file_path
         /\ IF r.exit # -1
            THEN /\ log' = log \cup r.log
                 /\ Exit(r.exit)
            ELSE /\ log' = log \cup r.log \cup {"running"}
                 /\ pc' = "get_general_config"
                 /\ UNCHANGED exit_code
    /\ UNCHANGED <<fsvars, run, argv, stdout_isatty, cpc, child_exit_code, cfgvars, engvars,
                   keyvars, stages, loopvars>>

\* ------------------------------------------------------------------------
\* main(): configuration
\* ------------------------------------------------------------------------
\* lines 650-656
ReadGeneralConfig ==
    /\ pc = "get_general_config"
    /\ LET r == get_general_config(cfg_file) IN
         /\ loaded' = r
         /\ IF r.ret # 0
            THEN /\ port' = r.port
                 /\ enable_ipv6' = r.enable_ipv6
                 /\ enable_ipv4_fallback' = r.enable_ipv4_fallback
                 /\ enable_lan_discovery' = r.enable_lan_discovery
                 /\ enable_tcp_relay' = r.enable_tcp_relay
                 /\ tcp_relay_ports' = r.tcp_relay_ports
                 /\ tcp_relay_port_count' = r.tcp_relay_port_count
                 /\ enable_motd' = r.enable_motd
                 /\ motd' = r.motd
                 /\ log' = log \cup r.log \cup {"general_config_read"}
                 /\ stages' = Append(stages, "config")
                 /\ pc' = "check_port"
                 /\ UNCHANGED exit_code
            ELSE /\ log' = log \cup r.log \cup {"could_not_read_config"}
                 /\ Exit(1)
                 /\ UNCHANGED <<port, enable_ipv6, enable_ipv4_fallback, enable_lan_discovery,
                                enable_tcp_relay, tcp_relay_ports, tcp_relay_port_count,
                                enable_motd, motd, stages>>
    /\ UNCHANGED <<fsvars, run, clivars, cpc, child_exit_code, engvars, keyvars, loopvars>>

\* the listen port's range check, on the int
ListenPortInvalid(p) == p < MIN_ALLOWED_PORT \/ p > MAX_ALLOWED_PORT

\* a port check that replaces an invalid port by the default
CheckPortDefaulting ==
    /\ pc = "check_port"
    /\ port' = IF ListenPortInvalid(port) THEN DEFAULT_PORT ELSE port
    /\ pc' = "check_pid_file"
    /\ UNCHANGED <<fsvars, run, clivars, cpc, exit_code, child_exit_code, enable_ipv6,
                   enable_ipv4_fallback, enable_lan_discovery, enable_tcp_relay,
                   tcp_relay_ports, tcp_relay_port_count, enable_motd, motd, loaded, engvars,
                   keyvars, log, stages, loopvars>>

\* lines 658-661
CheckPort ==
    /\ pc = "check_port"
    /\ IF ListenPortInvalid(port)
       THEN /\ log' = log \cup {"invalid_port"}
            /\ Exit(1)
       ELSE /\ pc' = "check_pid_file"
            /\ UNCHANGED <<exit_code, log>>
    /\ UNCHANGED <<fsvars, run, clivars, cpc, child_exit_code, cfgvars, engvars, keyvars, stages,
                   loopvars>>

\* a check that opens the process-id file the way line 758 does
CheckPidFileCreating ==
    /\ pc = "check_pid_file"
    /\ log' = IF pid_file.exists THEN log \cup {"pid_file_exists"} ELSE log
    /\ pid_file' = IF pid_file.exists THEN pid_file ELSE File(<<>>)
    /\ pc' = "new_networking"
    /\ UNCHANGED <<cfg_file, keys_file, run, clivars, cpc, exit_code, child_exit_code, cfgvars,
                   engvars, keyvars, stages, loopvars>>

\* lines 663-669
CheckPidFile ==
    /\ pc = "check_pid_file"
    /\ log' = IF pid_file.exists THEN log \cup {"pid_file_exists"} ELSE log
    /\ pc' = "new_networking"
    /\ UNCHANGED <<fsvars, run, clivars, cpc, exit_code, child_exit_code, cfgvars, engvars, keyvars,
                   stages, loopvars>>

\* ------------------------------------------------------------------------
\* main(): the network engine
\* ------------------------------------------------------------------------
\* an ip_init that asks for IPv6 whatever the flag
FamilyAlwaysIpv6(ipv6) == "ipv6"
\* ip_init(&ip, enable_ipv6): the address family the core binds
Family(ipv6) == IF ipv6 # 0 THEN "ipv6" ELSE "ipv4"

\* lines 671-691; ok1, ok2: whether the first and the fallback new_networking succeed
NewNetworking ==
    /\ pc = "new_networking"
    /\ \E ok1 \in BOOLEAN, ok2 \in BOOLEAN :
         IF ok1
         THEN /\ net' = Family(enable_ipv6)
              /\ net_attempts' = net_attempts + 1
              /\ net_families' = Append(net_families, Family(enable_ipv6))
              /\ stages' = Append(stages, "networking")
              /\ pc' = "new_DHT"
              /\ UNCHANGED <<enable_ipv6, exit_code, log>>
         ELSE IF enable_ipv6 # 0 /\ enable_ipv4_fallback # 0
         THEN /\ enable_ipv6' = 0
              /\ net_attempts' = net_attempts + 2
              /\ net_families' = net_families \o <<Family(enable_ipv6), Family(0)>>
              /\ IF ok2
                 THEN /\ net' = Family(0)
                      /\ stages' = Append(stages, "networking")
                      /\ pc' = "new_DHT"
                      /\ log' = log \cup {"falling_back_to_ipv4"}
                      /\ UNCHANGED exit_code
                 ELSE /\ log' = log \cup {"falling_back_to_ipv4", "could_not_fallback_to_ipv4"}
                      /\ Exit(1)
                      /\ UNCHANGED <<net, stages>>
         ELSE /\ net_attempts' = net_attempts + 1
              /\ net_families' = Append(net_families, Family(enable_ipv6))
              /\ log' = log \cup {"could_not_initialize_networking"}
              /\ Exit(1)
              /\ UNCHANGED <<enable_ipv6, net, stages>>
    /\ UNCHANGED <<fsvars, run, clivars, cpc, child_exit_code, port, enable_ipv4_fallback,
                   enable_lan_discovery, enable_tcp_relay, tcp_relay_ports,
                   tcp_relay_port_count, enable_motd, motd, loaded, dht, onion, tcp_server,
                   bootstrap, keyvars, loopvars>>

\* lines 694-699; new_DHT generates the object's keypair
NewDHT ==
    /\ pc = "new_DHT"
    /\ \E ok \in BOOLEAN, seed \in 1..MaxKeySeeds :
         IF ok
         THEN /\ dht' = [made |-> TRUE, self_public_key |-> FreshPublicKey(seed),
                         self_secret_key |-> FreshSecretKey(seed)]
              /\ stages' = Append(stages, "DHT")
              /\ pc' = "new_onion"
              /\ UNCHANGED <<exit_code, log>>
         ELSE /\ log' = log \cup {"could_not_initialize_dht"}
              /\ Exit(1)
              /\ UNCHANGED <<dht, stages>>
    /\ UNCHANGED <<fsvars, run, clivars, cpc, child_exit_code, cfgvars, net, net_attempts, net_families, onion,
                   tcp_server, bootstrap, keyvars, loopvars>>

\* lines 701-707
NewOnion ==
    /\ pc = "new_onion"
    /\ \E ok \in BOOLEAN :
         IF ok
         THEN /\ onion' = TRUE
              /\ stages' = Append(stages, "onion")
              /\ pc' = "set_motd"
              /\ UNCHANGED <<exit_code, log>>
         ELSE /\ log' = log \cup {"could_not_initialize_onion"}
              /\ Exit(1)
              /\ UNCHANGED <<onion, stages>>
    /\ UNCHANGED <<fsvars, run, clivars, cpc, child_exit_code, cfgvars, net, net_attempts, net_families, dht,
                   tcp_server, bootstrap, keyvars, loopvars>>

\* free(p): the block is gone
Freed == [mem |-> "freed", data |-> <<>>]

\* a main() that goes from the MOTD to the relay server, the keys left out
SetMotdThenRelay ==
    /\ pc = "set_motd"
    /\ IF enable_motd # 0
       THEN \E ok \in BOOLEAN :
              IF ok
              THEN /\ log' = log \cup {"set_motd"}
                   /\ motd' = Freed
                   /\ pc' = "new_TCP_server"
                   /\ UNCHANGED exit_code
              ELSE /\ log' = log \cup {"could_not_set_motd"}
                   /\ Exit(1)
                   /\ UNCHANGED motd
       ELSE /\ pc' = "new_TCP_server"
            /\ UNCHANGED <<exit_code, log, motd>>
    /\ UNCHANGED <<fsvars, run, clivars, cpc, child_exit_code, port, enable_ipv6, enable_ipv4_fallback,
                   enable_lan_discovery, enable_tcp_relay, tcp_relay_ports,
                   tcp_relay_port_count, enable_motd, loaded, engvars, keyvars, stages,
                   loopvars>>

\* lines 709-718; ok: whether bootstrap_set_callbacks accepted the MOTD
SetMotd ==
    /\ pc = "set_motd"
    /\ IF enable_motd # 0
       THEN \E ok \in BOOLEAN :
              IF ok
              THEN /\ log' = log \cup {"set_motd"}
                   /\ motd' = Freed
                   /\ pc' = "manage_keys"
                   /\ UNCHANGED exit_code
              ELSE /\ log' = log \cup {"could_not_set_motd"}
                   /\ Exit(1)
                   /\ UNCHANGED motd
       ELSE /\ pc' = "manage_keys"
            /\ UNCHANGED <<exit_code, log, motd>>
    /\ UNCHANGED <<fsvars, run, clivars, cpc, child_exit_code, port, enable_ipv6, enable_ipv4_fallback,
                   enable_lan_discovery, enable_tcp_relay, tcp_relay_ports,
                   tcp_relay_port_count, enable_motd, loaded, engvars, keyvars, stages,
                   loopvars>>

\* ------------------------------------------------------------------------
\* main(): identity
\* ------------------------------------------------------------------------
\* what fwrite can return: nothing, all but one byte, everything
WriteSizes == {0, KEYS_SIZE - 1, KEYS_SIZE}

\* lines 720-725
ManageKeys ==
    /\ pc = "manage_keys"
    /\ \E open_w \in BOOLEAN, write_size \in WriteSizes :
         LET r == manage_keys(dht.self_public_key, dht.self_secret_key, keys_file,
                              open_w, write_size) IN
           /\ keys_file' = r.file
           /\ dht' = [dht EXCEPT !.self_public_key = r.public_key,
                                 !.self_secret_key = r.secret_key]
           /\ keys_branch' = r.branch
           /\ hist_keys' = IF r.branch = "save" /\ r.ret # 0
                           THEN [set |-> TRUE, public_key |-> dht.self_public_key,
                                 secret_key |-> dht.self_secret_key]
                           ELSE hist_keys
           /\ IF r.ret # 0
              THEN /\ log' = log \cup {"keys_managed"}
                   /\ stages' = Append(stages, "keys")
                   /\ pc' = "new_TCP_server"
                   /\ UNCHANGED exit_code
              ELSE /\ log' = log \cup {"could_not_read_write_keys"}
                   /\ Exit(1)
                   /\ UNCHANGED stages
    /\ UNCHANGED <<cfg_file, pid_file, run, clivars, cpc, child_exit_code, cfgvars, net, net_attempts, net_families,
                   onion, tcp_server, bootstrap, loopvars>>

\* ------------------------------------------------------------------------
\* main(): relay server, bootstrap list
\* ------------------------------------------------------------------------
\* lines 727-746; ok: whether new_TCP_server succeeds
NewTCPServer ==
    /\ pc = "new_TCP_server"
    /\ IF enable_tcp_relay # 0
       THEN IF tcp_relay_port_count = 0
            THEN /\ log' = log \cup {"no_tcp_relay_ports_read"}
                 /\ Exit(1)
                 /\ UNCHANGED <<tcp_server, tcp_relay_ports, stages>>
            ELSE \E ok \in BOOLEAN :
                   /\ tcp_server' = [made |-> ok, ipv6 |-> enable_ipv6,
                                     ports |-> SubSeq(tcp_relay_ports.data, 1,
                                                      tcp_relay_port_count),
                                     secret_key |-> dht.self_secret_key]
                   /\ tcp_relay_ports' = Freed
                   /\ IF ok
                      THEN /\ log' = log \cup {"initialized_tcp_server"}
                           /\ stages' = Append(stages, "tcp_server")
                           /\ pc' = "bootstrap_from_config"
                           /\ UNCHANGED exit_code
                      ELSE /\ log' = log \cup {"could_not_initialize_tcp_server"}
                           /\ Exit(1)
                           /\ UNCHANGED stages
       ELSE /\ pc' = "bootstrap_from_config"
            /\ UNCHANGED <<exit_code, log, tcp_server, tcp_relay_ports, stages>>
    /\ UNCHANGED <<fsvars, run, clivars, cpc, child_exit_code, port, enable_ipv6, enable_ipv4_fallback,
                   enable_lan_discovery, enable_tcp_relay, tcp_relay_port_count, enable_motd,
                   motd, loaded, net, net_attempts, net_families, dht, onion, bootstrap, keyvars, loopvars>>

\* lines 748-755; parses: whether the second read of the settings file succeeds
BootstrapFromConfig ==
    /\ pc = "bootstrap_from_config"
    /\ \E parses \in BOOLEAN :
         LET r == bootstrap_from_config(cfg_file, parses, enable_ipv6) IN
           /\ bootstrap' = r
           /\ IF r.ret # 0
              THEN /\ log' = log \cup r.log \cup {"bootstrap_nodes_read", "public_key_printed"}
                   /\ stages' = Append(stages, "bootstrap")
                   /\ pc' = "open_pid_file"
                   /\ UNCHANGED exit_code
              ELSE /\ log' = log \cup r.log \cup {"could_not_read_bootstrap_nodes"}
                   /\ Exit(1)
                   /\ UNCHANGED stages
    /\ UNCHANGED <<fsvars, run, clivars, cpc, child_exit_code, cfgvars, net, net_attempts, net_families, dht, onion,
                   tcp_server, keyvars, loopvars>>

\* ------------------------------------------------------------------------
\* main(): daemonization
\* ------------------------------------------------------------------------
\* an open that empties the file, as fopen(pid_file_path, "w") does
OpenPidFileTruncating ==
    /\ pc = "open_pid_file"
    /\ \E ok \in BOOLEAN :
         IF ok
         THEN /\ pid_file' = File(<<>>)
              /\ pc' = "fork"
              /\ UNCHANGED <<exit_code, log>>
         ELSE /\ log' = log \cup {"could_not_open_pid_file"}
              /\ Exit(1)
              /\ UNCHANGED pid_file
    /\ UNCHANGED <<cfg_file, keys_file, run, clivars, cpc, child_exit_code, cfgvars, engvars,
                   keyvars, stages, loopvars>>

\* lines 757-766; ok: whether fopen(pid_file_path, "a+") succeeds; it
\* creates the file when there is none and keeps what an existing one holds
OpenPidFile ==
    /\ pc = "open_pid_file"
    /\ \E ok \in BOOLEAN :
         IF ok
         THEN /\ pid_file' = IF pid_file.exists THEN pid_file ELSE File(<<>>)
              /\ pc' = "fork"
              /\ UNCHANGED <<exit_code, log>>
         ELSE /\ log' = log \cup {"could_not_open_pid_file"}
              /\ Exit(1)
              /\ UNCHANGED pid_file
    /\ UNCHANGED <<cfg_file, keys_file, run, clivars, cpc, child_exit_code, cfgvars, engvars, keyvars,
                   stages, loopvars>>

\* lines 768-783, the call of fork(); ok: whether a child was created.
\* A failed fork leaves the one process in the else branch and then exits 1.
Fork ==
    /\ pc = "fork"
    /\ \E ok \in BOOLEAN :
         IF ok
         THEN /\ pc' = "parent_write_pid"
              /\ cpc' = "close_pidf"
              /\ stages' = Append(stages, "fork")
              /\ UNCHANGED <<exit_code, log>>
         ELSE /\ log' = log \cup {"forking_failed"}
              /\ Exit(1)
              /\ UNCHANGED <<cpc, stages>>
    /\ UNCHANGED <<fsvars, run, clivars, child_exit_code, cfgvars, engvars, keyvars, loopvars>>

\* a parent that writes the child's process id twice
ParentWritePidTwice ==
    /\ pc = "parent_write_pid"
    /\ pid_file' = [pid_file EXCEPT !.data = @ \o DecimalDigits(ChildPid(run))
                                               \o DecimalDigits(ChildPid(run))]
    /\ log' = log \cup {"forked_successfully"}
    /\ Exit(0)
    /\ UNCHANGED <<cfg_file, keys_file, run, clivars, cpc, child_exit_code, cfgvars, engvars,
                   keyvars, stages, loopvars>>

\* lines 771-775, in the parent: pid > 0
ParentWritePid ==
    /\ pc = "parent_write_pid"
    /\ pid_file' = [pid_file EXCEPT !.data = @ \o DecimalDigits(ChildPid(run))]
    /\ log' = log \cup {"forked_successfully"}
    /\ Exit(0)
    /\ UNCHANGED <<cfg_file, keys_file, run, clivars, cpc, child_exit_code, cfgvars, engvars, keyvars,
                   stages, loopvars>>

\* return 1 from main() in the child
ChildExit(code) == cpc' = "exited" /\ child_exit_code' = code

\* lines 776-786, in the child: pid = 0; fclose(pidf), umask(0)
ChildClosePidf ==
    /\ cpc = "close_pidf"
    /\ cpc' = "setsid"
    /\ UNCHANGED <<fsvars, run, clivars, pc, exit_code, child_exit_code, cfgvars, engvars, keyvars,
                   log, stages, loopvars>>

\* lines 788-792
Setsid ==
    /\ cpc = "setsid"
    /\ \E ok \in BOOLEAN :
         IF ok
         THEN /\ cpc' = "chdir"
              /\ UNCHANGED <<child_exit_code, log>>
         ELSE /\ log' = log \cup {"sid_creation_failure"}
              /\ ChildExit(1)
    /\ UNCHANGED <<fsvars, run, clivars, pc, exit_code, cfgvars, engvars, keyvars, stages, loopvars>>

\* a child that logs the failed chdir and goes on
ChdirIgnoringFailure ==
    /\ cpc = "chdir"
    /\ \E ok \in BOOLEAN :
         /\ cpc' = "go_quiet"
         /\ log' = IF ok THEN log ELSE log \cup {"could_not_change_directory"}
         /\ UNCHANGED child_exit_code
    /\ UNCHANGED <<fsvars, run, clivars, pc, exit_code, cfgvars, engvars, keyvars, stages,
                   loopvars>>

\* lines 794-798
Chdir ==
    /\ cpc = "chdir"
    /\ \E ok \in BOOLEAN :
         IF ok
         THEN /\ cpc' = "go_quiet"
              /\ UNCHANGED <<child_exit_code, log>>
         ELSE /\ log' = log \cup {"could_not_change_directory"}
              /\ ChildExit(1)
    /\ UNCHANGED <<fsvars, run, clivars, pc, exit_code, cfgvars, engvars, keyvars, stages, loopvars>>

\* lines 800-805
GoQuiet ==
    /\ cpc = "go_quiet"
    /\ cpc' = "LANdiscovery_init"
    /\ UNCHANGED <<fsvars, run, clivars, pc, exit_code, child_exit_code, cfgvars, engvars, keyvars,
                   log, stages, loopvars>>

\* lines 807-815
LANdiscoveryInit ==
    /\ cpc = "LANdiscovery_init"
    /\ last_LANdiscovery' = 0
    /\ waiting_for_dht_connection' = 1
    /\ log' = IF enable_lan_discovery # 0 THEN log \cup {"initialized_lan_discovery"} ELSE log
    /\ stages' = Append(stages, "loop")
    /\ cpc' = "do_DHT"
    /\ UNCHANGED <<fsvars, run, clivars, pc, exit_code, child_exit_code, cfgvars, engvars,
                   keyvars, now, isconnected, connected_logs, tick, broadcasts>>

\* ------------------------------------------------------------------------
\* main(): the service loop, lines 817-837
\* ------------------------------------------------------------------------
\* line 818, the first statement of the body; do_DHT refreshes the cached
\* clock: no time or one ClockStep passed; the engine may find its
\* connections timed out
DoDHT ==
    /\ cpc = "do_DHT"
    /\ \E d \in {0, ClockStep} :
         now' = IF now + d <= StartTime + MaxTime * ClockStep THEN now + d ELSE now
    /\ isconnected' \in {isconnected, FALSE}
    /\ tick' = <<"do_DHT">>
    /\ cpc' = "LANdiscovery"
    /\ UNCHANGED <<fsvars, run, clivars, pc, exit_code, child_exit_code, cfgvars, engvars,
                   keyvars, log, stages, waiting_for_dht_connection, last_LANdiscovery,
                   connected_logs, broadcasts>>

\* a broadcast that does not record when it was made
LANdiscoveryForgetting ==
    /\ cpc = "LANdiscovery"
    /\ IF enable_lan_discovery # 0 /\ is_timeout(last_LANdiscovery, LAN_DISCOVERY_INTERVAL, now)
       THEN /\ broadcasts' = Append(broadcasts, now)
            /\ tick' = Append(tick, "send_LANdiscovery")
       ELSE UNCHANGED <<broadcasts, tick>>
    /\ cpc' = "do_TCP_server"
    /\ UNCHANGED <<fsvars, run, clivars, pc, exit_code, child_exit_code, cfgvars, engvars,
                   keyvars, log, stages, waiting_for_dht_connection, last_LANdiscovery, now,
                   isconnected, connected_logs>>

\* lines 820-823; unix_time() is the clock do_DHT cached
LANdiscovery ==
    /\ cpc = "LANdiscovery"
    /\ IF enable_lan_discovery # 0 /\ is_timeout(last_LANdiscovery, LAN_DISCOVERY_INTERVAL, now)
       THEN /\ broadcasts' = Append(broadcasts, now)
            /\ tick' = Append(tick, "send_LANdiscovery")
            /\ last_LANdiscovery' = now
       ELSE UNCHANGED <<broadcasts, tick, last_LANdiscovery>>
    /\ cpc' = "do_TCP_server"
    /\ UNCHANGED <<fsvars, run, clivars, pc, exit_code, child_exit_code, cfgvars, engvars,
                   keyvars, log, stages, waiting_for_dht_connection, now, isconnected,
                   connected_logs>>

\* a body that advances the relay server whatever the settings say
DoTCPServerAlways ==
    /\ cpc = "do_TCP_server"
    /\ tick' = Append(tick, "do_TCP_server")
    /\ cpc' = "networking_poll"
    /\ UNCHANGED <<fsvars, run, clivars, pc, exit_code, child_exit_code, cfgvars, engvars,
                   keyvars, log, stages, waiting_for_dht_connection, last_LANdiscovery, now,
                   isconnected, connected_logs, broadcasts>>

\* lines 825-827
DoTCPServer ==
    /\ cpc = "do_TCP_server"
    /\ tick' = IF enable_tcp_relay # 0 THEN Append(tick, "do_TCP_server") ELSE tick
    /\ cpc' = "networking_poll"
    /\ UNCHANGED <<fsvars, run, clivars, pc, exit_code, child_exit_code, cfgvars, engvars,
                   keyvars, log, stages, waiting_for_dht_connection, last_LANdiscovery, now,
                   isconnected, connected_logs, broadcasts>>

\* line 829; a packet received may give the DHT a live connection
NetworkingPoll ==
    /\ cpc = "networking_poll"
    /\ isconnected' \in {isconnected, TRUE}
    /\ tick' = Append(tick, "networking_poll")
    /\ cpc' = "check_connection"
    /\ UNCHANGED <<fsvars, run, clivars, pc, exit_code, child_exit_code, cfgvars, engvars,
                   keyvars, log, stages, waiting_for_dht_connection, last_LANdiscovery, now,
                   connected_logs, broadcasts>>

\* a condition that forgets the awaiting-connection flag
ConnectsWhenever(waiting, DHT_isconnected) == DHT_isconnected
\* the condition of line 831: whether this tick leaves awaiting-connection
Connects(waiting, DHT_isconnected) == waiting # 0 /\ DHT_isconnected

\* lines 831-834
CheckConnection ==
    /\ cpc = "check_connection"
    /\ IF Connects(waiting_for_dht_connection, isconnected)
       THEN /\ log' = log \cup {"connected_to_other_bootstrap_node"}
            /\ connected_logs' = connected_logs + 1
            /\ waiting_for_dht_connection' = 0
       ELSE UNCHANGED <<log, connected_logs, waiting_for_dht_connection>>
    /\ tick' = Append(tick, "check_connection")
    /\ cpc' = "sleep"
    /\ UNCHANGED <<fsvars, run, clivars, pc, exit_code, child_exit_code, cfgvars, engvars,
                   keyvars, stages, last_LANdiscovery, now, isconnected, broadcasts>>

\* line 836: usleep returns and the while (1) of line 817 starts the body again
Sleep ==
    /\ cpc = "sleep"
    /\ tick' = Append(tick, "usleep")
    /\ cpc' = "do_DHT"
    /\ UNCHANGED <<fsvars, run, clivars, pc, exit_code, child_exit_code, cfgvars, engvars,
                   keyvars, log, stages, waiting_for_dht_connection, last_LANdiscovery, now,
                   isconnected, connected_logs, broadcasts>>

\* ------------------------------------------------------------------------
\* The operator launches the daemon again: a new process, the same files.
\* An earlier service instance, if any, is left to itself.
\* ------------------------------------------------------------------------
Launch ==
    /\ pc = "exited"
    /\ cpc \in {"none", "exited"} \cup LoopPcs
    /\ run < MaxRuns
    /\ run' = run + 1
    /\ pc' = Start.pc /\ cpc' = Start.cpc
    /\ exit_code' = Start.exit_code /\ child_exit_code' = Start.child_exit_code
    /\ cfg_file_path' = Start.cfg_file_path /\ log_backend' = Start.log_backend
    /\ port' = Start.int /\ enable_ipv6' = Start.int /\ enable_ipv4_fallback' = Start.int
    /\ enable_lan_discovery' = Start.int /\ enable_tcp_relay' = Start.int
    /\ tcp_relay_ports' = Start.ptr /\ tcp_relay_port_count' = Start.int
    /\ enable_motd' = Start.int /\ motd' = Start.ptr /\ loaded' = Start.loaded
    /\ net' = Start.net /\ net_attempts' = Start.net_attempts
    /\ net_families' = Start.net_families /\ dht' = Start.dht
    /\ onion' = Start.onion /\ tcp_server' = Start.tcp_server /\ bootstrap' = Start.bootstrap
    /\ keys_branch' = Start.keys_branch
    /\ log' = Start.log /\ stages' = Start.stages
    /\ waiting_for_dht_connection' = Start.waiting_for_dht_connection
    /\ last_LANdiscovery' = Start.last_LANdiscovery /\ now' = Start.now
    /\ isconnected' = Start.isconnected /\ connected_logs' = Start.connected_logs
    /\ tick' = Start.tick /\ broadcasts' = Start.broadcasts
    /\ UNCHANGED <<fsvars, argv, stdout_isatty, hist_keys>>

\* ------------------------------------------------------------------------
\* Settings files
\* ------------------------------------------------------------------------
\* a file that parses and defines none of the options: all defaults
BaseCfg ==
    [parses |-> TRUE, port |-> Absent, enable_ipv6 |-> Absent, enable_ipv4_fallback |-> Absent,
     enable_lan_discovery |-> Absent, enable_tcp_relay |-> Absent, tcp_relay_ports |-> Absent,
     enable_motd |-> Absent, motd |-> Absent, bootstrap_nodes |-> Absent]

\* a file libconfig cannot parse
BrokenCfg == [BaseCfg EXCEPT !.parses = FALSE]

\* integers a settings file can hold where a port is expected
PortValues == {-1, 0, 1, 443, 65535, 65536, 65537}

\* a setting of another type than the one looked up
WrongInt == StrS(Text(1))
WrongBool == IntS(1)
WrongString == IntS(0)

PortSettings == {Absent, WrongInt} \cup {IntS(v) : v \in PortValues}
FlagSettings == {Absent, WrongBool, BoolS(0), BoolS(1)}

\* all sequences over S of length at most n
RECURSIVE SeqsUpTo(_, _)
SeqsUpTo(S, n) ==
    IF n = 0 THEN {<<>>}
    ELSE SeqsUpTo(S, n - 1) \cup {Append(q, x) : q \in {r \in SeqsUpTo(S, n - 1) : Len(r) = n - 1}, x \in S}

\* elements of a tcp_relay_ports array: a non-number, or an integer
PortElems == {StrS(Text(1))} \cup {IntS(v) : v \in PortValues}
RelayPortsSettings ==
    {Absent, IntS(443), StrS(Text(3))} \cup {ArrS(a) : a \in SeqsUpTo(PortElems, MaxPorts)}

MotdSettings ==
    {Absent, WrongString}
    \cup {StrS(Text(n)) : n \in {0, 3, MAX_MOTD_LENGTH - 2, MAX_MOTD_LENGTH - 1,
                                 MAX_MOTD_LENGTH, MAX_MOTD_LENGTH + 1}}

\* The loader's input space: the scalar options in every combination, the
\* relay options in every combination, and the MOTD options in every
\* combination, the options outside the group left out of the file
ScalarCfgs ==
    {[BaseCfg EXCEPT !.port = p, !.enable_ipv6 = a, !.enable_ipv4_fallback = b,
                     !.enable_lan_discovery = c, !.enable_tcp_relay = d, !.enable_motd = e] :
        p \in PortSettings, a \in FlagSettings, b \in FlagSettings, c \in FlagSettings,
        d \in FlagSettings, e \in FlagSettings}
RelayCfgs ==
    {[BaseCfg EXCEPT !.enable_tcp_relay = d, !.tcp_relay_ports = r] :
        d \in FlagSettings, r \in RelayPortsSettings}
MotdCfgs ==
    {[BaseCfg EXCEPT !.enable_motd = e, !.motd = m] : e \in FlagSettings, m \in MotdSettings}
LoaderCfgs == ScalarCfgs \cup RelayCfgs \cup MotdCfgs \cup {BrokenCfg}

\* bootstrap_nodes entries
HexKey(n) == [i \in 1..n |-> 48 + (i % 10)]
Node(key, p, a) == [public_key |-> key, port |-> p, address |-> a]
GoodNode == Node(StrS(HexKey(2 * crypto_box_PUBLICKEYBYTES)), IntS(33445), StrS("v4.example"))
V6Node == [GoodNode EXCEPT !.address = StrS("v6.example")]
ShortKeyNode == [GoodNode EXCEPT !.public_key = StrS(HexKey(2 * crypto_box_PUBLICKEYBYTES - 1))]
NodeLists == {Absent, ListS(<<>>), ListS(<<GoodNode>>), ListS(<<ShortKeyNode, V6Node>>)}

\* a key of the right length with a character that is no hexadecimal digit
NonHexKey(n) == [i \in 1..n |-> IF i = 2 THEN 90 ELSE 48 + (i % 10)]
NonHexKeyNode == [GoodNode EXCEPT !.public_key = StrS(NonHexKey(2 * crypto_box_PUBLICKEYBYTES))]
LongKeyNode == [GoodNode EXCEPT !.public_key = StrS(HexKey(2 * crypto_box_PUBLICKEYBYTES + 1))]
PortZeroNode == [GoodNode EXCEPT !.port = IntS(0)]
NoAddressNode == [GoodNode EXCEPT !.address = Absent]
TextPortNode == [GoodNode EXCEPT !.port = StrS(Text(2))]
NoKeyNode == [GoodNode EXCEPT !.public_key = Absent]
\* entries that fail more than one of the checks
NothingNode == Node(Absent, Absent, Absent)
NoPortNoAddressNode == [GoodNode EXCEPT !.port = Absent, !.address = Absent]
ShortKeyNoAddressNode == [ShortKeyNode EXCEPT !.address = Absent]
ShortKeyPortZeroNode == [ShortKeyNode EXCEPT !.port = IntS(0)]
PortZeroV6Node == [V6Node EXCEPT !.port = IntS(0)]
Nodes == {GoodNode, V6Node, ShortKeyNode, LongKeyNode, NonHexKeyNode, PortZeroNode,
          NoAddressNode, TextPortNode, NoKeyNode, NothingNode, NoPortNoAddressNode,
          ShortKeyNoAddressNode, ShortKeyPortZeroNode, PortZeroV6Node}

\* The bootstrap processor's input space: no list, a setting that is no
\* list, and every list of up to MaxNodes entries, with IPv6 on and off
BootstrapCfgs ==
    {[BaseCfg EXCEPT !.enable_ipv6 = a, !.bootstrap_nodes = n] :
        a \in {Absent, BoolS(0)},
        n \in {Absent, IntS(1)} \cup {ListS(l) : l \in SeqsUpTo(Nodes, MaxNodes)}}

\* The settings files of the launches modelled
MainCfgs ==
    {[BaseCfg EXCEPT !.port = p] : p \in {Absent, IntS(0), IntS(65536)}}
    \cup {[BaseCfg EXCEPT !.enable_ipv6 = a, !.enable_ipv4_fallback = b, !.bootstrap_nodes = n] :
            a \in {Absent, BoolS(0)}, b \in {Absent, BoolS(0)}, n \in NodeLists}
    \cup {[BaseCfg EXCEPT !.enable_tcp_relay = d, !.tcp_relay_ports = r] :
            d \in {Absent, BoolS(0)},
            r \in {Absent, IntS(443), ArrS(<<>>), ArrS(<<IntS(0)>>), ArrS(<<IntS(65537)>>),
                   ArrS(<<StrS(Text(1)), IntS(443)>>)}}
    \cup {[BaseCfg EXCEPT !.enable_lan_discovery = c, !.enable_motd = e] :
            c \in {Absent, BoolS(0)}, e \in {Absent, BoolS(0)}}
    \cup {BrokenCfg}

\* key files found by the first launch: none, or one of some length
FileBytes(n) == [i \in 1..n |-> (i * 7 + 3) % 256]
KeyFiles == {NoFile} \cup {File(FileBytes(n)) : n \in {0, KEYS_SIZE - 1, KEYS_SIZE, KEYS_SIZE + 1}}

\* process-id files found by the first launch: none, or a stale one
PidFiles == {NoFile, File(DecimalDigits(ChildPid(0)))}

\* the command line of the launches whose later stages are modelled
JustConfig == <<"config">>

\* command lines: up to MaxArgs elements, the last one possibly an option
\* that lacks its argument
CommandLines ==
    SeqsUpTo(Options, MaxArgs)
    \cup {Append(q, MissingArgument) : q \in SeqsUpTo(Options, MaxArgs - 1)}

\* ------------------------------------------------------------------------
\* Specifications
\* ------------------------------------------------------------------------
InitFiles(cfgs, keyfiles, pidfiles) ==
    /\ argv = JustConfig
    /\ stdout_isatty = FALSE
    /\ cfg_file \in cfgs
    /\ keys_file \in keyfiles
    /\ pid_file \in pidfiles
    /\ run = 1
    /\ hist_keys = NoKeys
    /\ StartOfMain

\* every settings file on a clean file system, and the all-defaults file
\* on every file system
Init ==
    \/ InitFiles(MainCfgs, {NoFile}, {NoFile})
    \/ InitFiles({BaseCfg}, KeyFiles, PidFiles)

Next ==
    \/ HandleCommandLineArguments
    \/ ReadGeneralConfig
    \/ CheckPort
    \/ CheckPidFile
    \/ NewNetworking
    \/ NewDHT
    \/ NewOnion
    \/ SetMotd
    \/ ManageKeys
    \/ NewTCPServer
    \/ BootstrapFromConfig
    \/ OpenPidFile
    \/ Fork
    \/ ParentWritePid
    \/ ChildClosePidf
    \/ Setsid
    \/ Chdir
    \/ GoQuiet
    \/ LANdiscoveryInit
    \/ DoDHT
    \/ LANdiscovery
    \/ DoTCPServer
    \/ NetworkingPoll
    \/ CheckConnection
    \/ Sleep
    \/ Launch

Spec == Init /\ [][Next]_vars

\* The configuration loader and the listen-port check on the loader's
\* whole input space
InitLoader == InitFiles(LoaderCfgs, {NoFile}, {NoFile})

NextLoader ==
    \/ HandleCommandLineArguments
    \/ ReadGeneralConfig
    \/ CheckPort

SpecLoader == InitLoader /\ [][NextLoader]_vars

\* Startup up to the bootstrap list, on the bootstrap processor's input space
InitBootstrap == InitFiles(BootstrapCfgs, {NoFile}, {NoFile})

NextBootstrap ==
    \/ HandleCommandLineArguments
    \/ ReadGeneralConfig
    \/ CheckPort
    \/ CheckPidFile
    \/ NewNetworking
    \/ NewDHT
    \/ NewOnion
    \/ SetMotd
    \/ ManageKeys
    \/ NewTCPServer
    \/ BootstrapFromConfig

SpecBootstrap == InitBootstrap /\ [][NextBootstrap]_vars

\* The command line on its input space, with and without a terminal
InitArgs ==
    /\ argv \in CommandLines
    /\ stdout_isatty \in BOOLEAN
    /\ cfg_file = BaseCfg
    /\ keys_file = NoFile
    /\ pid_file = NoFile
    /\ run = 1
    /\ hist_keys = NoKeys
    /\ StartOfMain

NextArgs ==
    \/ HandleCommandLineArguments
    \/ ReadGeneralConfig

SpecArgs == InitArgs /\ [][NextArgs]_vars

\* ------------------------------------------------------------------------
\* Properties
\* ------------------------------------------------------------------------
\* the port range the documentation gives
InPortRange(p) == 1 <= p /\ p <= 65535

\* the settings file enables the relay (explicitly or by default) and
\* get_general_config has returned a snapshot of it
RelayLoaded == loaded.ret = 1 /\ loaded.enable_tcp_relay # 0

\* the relay ports main() holds after the loader returned
CollectedPorts == SubSeq(loaded.tcp_relay_ports.data, 1, loaded.tcp_relay_port_count)

\* the array elements that are numbers within the port range
ValidElems(elems) ==
    {i \in DOMAIN elems : elems[i].kind = "int" /\ InPortRange(elems[i].val)}

\* C1: an integer p of the settings file is accepted as the listen port, and
\* as an element of tcp_relay_ports, iff 1 <= p <= 65535, and no value out
\* of that range is stored in the relay-port list.
C1_PortAcceptedIffInRange ==
    loaded.ret = 1 =>
        /\ pc # "check_port" => (pc = "check_pid_file" <=> InPortRange(loaded.port))
        /\ (RelayLoaded /\ cfg_file.tcp_relay_ports.kind = "array") =>
               loaded.tcp_relay_port_count
                   = Cardinality(ValidElems(cfg_file.tcp_relay_ports.val))
        /\ \A i \in DOMAIN CollectedPorts : InPortRange(CollectedPorts[i])

\* the values of the elements that are numbers within the port range, in
\* the array's order
RECURSIVE ValidSubsequence(_)
ValidSubsequence(elems) ==
    IF elems = <<>> THEN <<>>
    ELSE IF Head(elems).kind = "int" /\ InPortRange(Head(elems).val)
         THEN <<Head(elems).val>> \o ValidSubsequence(Tail(elems))
         ELSE ValidSubsequence(Tail(elems))

\* C10: for a tcp_relay_ports array that is present, the collected list is
\* exactly the subsequence of its numeric elements within [1,65535], in
\* input order, duplicates kept, with no gap and no padding by the defaults.
C10_CollectedIsValidSubsequence ==
    (RelayLoaded /\ cfg_file.tcp_relay_ports.kind = "array") =>
        /\ CollectedPorts = ValidSubsequence(cfg_file.tcp_relay_ports.val)
        /\ loaded.tcp_relay_port_count = Len(ValidSubsequence(cfg_file.tcp_relay_ports.val))
        /\ Len(loaded.tcp_relay_ports.data) = loaded.tcp_relay_port_count

\* what an option resolves to by the documentation: the configured value
\* when the setting has the option's type, else the default
Resolved(s, kind, default) == IF s.kind = kind THEN s.val ELSE default

\* the scalar options and the default relay ports of C9
C9_ScalarsResolved ==
    /\ port = Resolved(cfg_file.port, "int", 33445)
    /\ enable_ipv6 = Resolved(cfg_file.enable_ipv6, "bool", 1)
    /\ enable_ipv4_fallback = Resolved(cfg_file.enable_ipv4_fallback, "bool", 1)
    /\ enable_lan_discovery = Resolved(cfg_file.enable_lan_discovery, "bool", 1)
    /\ enable_tcp_relay = Resolved(cfg_file.enable_tcp_relay, "bool", 1)
    /\ enable_motd = Resolved(cfg_file.enable_motd, "bool", 1)
    /\ (enable_tcp_relay # 0 /\ cfg_file.tcp_relay_ports.kind = "absent") =>
           /\ tcp_relay_port_count = 3
           /\ tcp_relay_ports.data = <<443, 3389, 33445>>

\* a text cut to what fits the MOTD buffer with its terminator
Clamped(text) ==
    IF Len(text) + 1 <= MAX_MOTD_LENGTH THEN text ELSE SubSeq(text, 1, MAX_MOTD_LENGTH - 1)

\* C9 as claimed: when the settings file parses, every absent option
\* resolves to its default, a scalar option of the wrong type resolves to
\* the same default, and an option of the right type keeps its configured
\* value (the MOTD text included).
C9_Original ==
    pc = "check_port" =>
        /\ C9_ScalarsResolved
        /\ enable_motd # 0 =>
               CString(motd.data) = Resolved(cfg_file.motd, "string", DAEMON_NAME)

\* C9 as amended: as claimed for the port, the flags, the default relay
\* ports and the default MOTD; a configured MOTD text keeps its value up to
\* MAX_MOTD_LENGTH - 1 characters and is cut to that length when longer.
C9_OptionsResolved ==
    pc = "check_port" =>
        /\ C9_ScalarsResolved
        /\ enable_motd # 0 =>
               CString(motd.data) = Clamped(Resolved(cfg_file.motd, "string", DAEMON_NAME))

\* a MOTD text longer than the buffer was loaded and cut
C9_Witness ==
    /\ pc = "check_port"
    /\ cfg_file.motd = StrS(Text(MAX_MOTD_LENGTH + 1))
    /\ enable_motd = 1
    /\ Len(CString(motd.data)) = MAX_MOTD_LENGTH - 1

\* the stage s was passed in this launch
Passed(s) == \E i \in DOMAIN stages : stages[i] = s

\* the Key Manager stage completed in this launch
KeysManaged == Passed("keys")

C3_IdentityRoundTrip ==
    /\ (keys_branch = "save" /\ KeysManaged) =>
           /\ hist_keys = [set |-> TRUE, public_key |-> dht.self_public_key,
                           secret_key |-> dht.self_secret_key]
           /\ keys_file.data = dht.self_public_key \o dht.self_secret_key
    /\ (keys_branch = "load" /\ KeysManaged /\ hist_keys.set) =>
           /\ dht.self_public_key = hist_keys.public_key
           /\ dht.self_secret_key = hist_keys.secret_key
           /\ SubSeq(keys_file.data, 1, crypto_box_PUBLICKEYBYTES) = hist_keys.public_key
           /\ SubSeq(keys_file.data, crypto_box_PUBLICKEYBYTES + 1, KEYS_SIZE)
                  = hist_keys.secret_key

\* a later launch loaded the keypair an earlier launch persisted
C3_Witness ==
    /\ run > 1
    /\ keys_branch = "load"
    /\ KeysManaged
    /\ hist_keys.set
    /\ dht.self_public_key = hist_keys.public_key

\* every b in the stage history has an a before it
Precedes(a, b) ==
    \A j \in DOMAIN stages : stages[j] = b => \E i \in 1..(j - 1) : stages[i] = a

\* C4 as claimed: configuration, then the Key Manager, then the network
\* engine (networking core, DHT, onion), then the bootstrap list, then the
\* fork, then the service loop.
C4_Original ==
    /\ Precedes("config", "keys")
    /\ Precedes("keys", "networking")
    /\ Precedes("keys", "DHT")
    /\ Precedes("keys", "onion")
    /\ Precedes("onion", "bootstrap")
    /\ Precedes("bootstrap", "fork")
    /\ Precedes("fork", "loop")

\* the order of main()'s stages
StageOrder(relay) ==
    <<"config", "networking", "DHT", "onion", "keys">>
    \o (IF relay # 0 THEN <<"tcp_server">> ELSE <<>>)
    \o <<"bootstrap", "fork", "loop">>

\* C4 as amended: configuration, then the networking core, the DHT and the
\* onion objects, then the Key Manager (which sets the identity of the DHT
\* already constructed), then the relay server when relay is enabled, then
\* the bootstrap list, then the fork, then the service loop.
C4_StagesInOrder ==
    \E n \in 0..Len(StageOrder(enable_tcp_relay)) :
        stages = SubSeq(StageOrder(enable_tcp_relay), 1, n)

\* a launch went through every stage, the relay server included
C4_Witness ==
    /\ cpc \in LoopPcs
    /\ stages = StageOrder(1)

\* the settings file names no relay port that is an integer within [1,65535]
NoValidRelayPort ==
    \/ cfg_file.tcp_relay_ports.kind \notin {"absent", "array"}
    \/ /\ cfg_file.tcp_relay_ports.kind = "array"
       /\ ValidElems(cfg_file.tcp_relay_ports.val) = {}

\* C5: while the service loop runs with relay enabled, the relay server was
\* built from a non-empty port list within [1,65535]; a configuration with
\* relay enabled and no valid relay port (an empty array, an array whose
\* elements are all invalid, a setting that is no array) yields zero ports,
\* has the "no ports" condition reported and ends startup before the fork
\* with a non-zero exit status.
C5_RelayPortsOrNoStart ==
    /\ ((cpc \in LoopPcs \/ tcp_server.made) /\ enable_tcp_relay # 0) =>
           /\ tcp_server.made
           /\ Len(tcp_server.ports) > 0
           /\ \A i \in DOMAIN tcp_server.ports : InPortRange(tcp_server.ports[i])
    /\ (RelayLoaded /\ NoValidRelayPort) =>
           /\ loaded.tcp_relay_port_count = 0
           /\ "no_tcp_ports_could_be_read" \in log
           /\ ~tcp_server.made
           /\ cpc = "none"
           /\ pc \notin {"bootstrap_from_config", "open_pid_file", "fork", "parent_write_pid"}
           /\ pc = "exited" => exit_code = 1

\* relay is enabled and tcp_relay_ports is present but no array
RelayPortsNotArray ==
    /\ cfg_file.parses
    /\ Resolved(cfg_file.enable_tcp_relay, "bool", 1) # 0
    /\ cfg_file.tcp_relay_ports.kind \notin {"absent", "array"}

\* C6 as claimed: with relay enabled and tcp_relay_ports present but no
\* array, get_general_config returns failure, and never the default ports.
C6_Original ==
    (RelayPortsNotArray /\ loaded # NotLoaded) => loaded.ret = 0

\* C6 as amended: in that case get_general_config logs the error and
\* returns success with a snapshot of zero relay ports, never the default
\* ports; main() then fails no later than its relay stage, with exit
\* status 1, before any relay server and before the fork.
C6_NotArrayYieldsNoPorts ==
    (RelayPortsNotArray /\ loaded # NotLoaded) =>
        /\ loaded.ret = 1
        /\ loaded.tcp_relay_port_count = 0
        /\ loaded.tcp_relay_ports.data = <<>>
        /\ tcp_relay_port_count = 0
        /\ {"tcp_relay_ports_should_be_array", "no_tcp_ports_could_be_read"} \subseteq log
        /\ "using_default_tcp_relay_ports" \notin log
        /\ ~tcp_server.made
        /\ ~Passed("fork")
        /\ pc = "exited" => exit_code = 1
        /\ pc \notin {"bootstrap_from_config", "open_pid_file", "fork", "parent_write_pid"}

\* main() came to its relay stage with a setting that is no array and exited
C6_Witness ==
    /\ RelayPortsNotArray
    /\ pc = "exited"
    /\ exit_code = 1
    /\ "no_tcp_relay_ports_read" \in log

\* the options C7 names other than the IPv6 flag hold what the loader resolved
C7_OthersUnchanged ==
    /\ port = loaded.port
    /\ enable_ipv4_fallback = loaded.enable_ipv4_fallback
    /\ enable_lan_discovery = loaded.enable_lan_discovery
    /\ enable_tcp_relay = loaded.enable_tcp_relay
    /\ tcp_relay_port_count = loaded.tcp_relay_port_count
    /\ tcp_relay_ports.mem # "freed" => tcp_relay_ports = loaded.tcp_relay_ports
    /\ enable_motd = loaded.enable_motd
    /\ tcp_server.made => tcp_server.ports = CollectedPorts

C8_ConnectedMonotone ==
    /\ [](/\ waiting_for_dht_connection \in {0, 1}
          /\ connected_logs = 1 - waiting_for_dht_connection
          /\ "connected_to_other_bootstrap_node" \in log <=> waiting_for_dht_connection = 0
          /\ cpc \notin LoopPcs => waiting_for_dht_connection = 1)
    /\ [][run' = run =>
            /\ waiting_for_dht_connection = 0 => waiting_for_dht_connection' = 0
            /\ waiting_for_dht_connection' # waiting_for_dht_connection =>
                   /\ cpc = "check_connection"
                   /\ isconnected
                   /\ connected_logs' = connected_logs + 1
            /\ connected_logs' # connected_logs =>
                   waiting_for_dht_connection' # waiting_for_dht_connection]_vars

\* a connected daemon went through a connection check with no live connection
C8_Witness ==
    /\ cpc = "sleep"
    /\ waiting_for_dht_connection = 0
    /\ ~isconnected
    /\ connected_logs = 1

\* handle_command_line_arguments is over, by a return or by exit()
ArgumentsHandled == pc # "handle_command_line_arguments"

\* the flags C16 calls unrecognized or malformed
BadFlags == {"unknown", "log_other", MissingArgument}

\* the positions of the command line holding one of the options S
Positions(S) == {i \in DOMAIN argv : argv[i] \in S}

\* the launch ended inside handle_command_line_arguments with usage and status 1
UsageAndFailure ==
    /\ pc = "exited" /\ exit_code = 1
    /\ "usage" \in log
    /\ loaded = NotLoaded

\* C16 as claimed: whenever --config is missing or the command line holds an
\* unrecognized or malformed flag, at any position, the program prints
\* usage and exits with a non-zero status.
C16_Original ==
    (ArgumentsHandled /\ (Positions({"config"}) = {} \/ Positions(BadFlags) # {}))
        => UsageAndFailure

\* the first position holding an option that ends the program
FirstEnding == CHOOSE i \in Positions(BadFlags \cup {"help", "version"}) :
                   \A j \in Positions(BadFlags \cup {"help", "version"}) : i <= j

\* C16 as amended: the options are handled in command-line order and the
\* first --help, --version or unrecognized/malformed flag ends the program:
\* --help with usage and status 0, --version with the version, no usage and
\* status 0, an unrecognized or malformed flag with usage and status 1.
\* With none of them, a command line without --config (the empty one
\* included) ends with usage and status 1, and one with --config goes on to
\* read the configuration.
C16_FirstEndingOptionDecides ==
    ArgumentsHandled =>
        IF Positions(BadFlags \cup {"help", "version"}) # {}
        THEN /\ argv[FirstEnding] \in BadFlags => UsageAndFailure
             /\ argv[FirstEnding] = "help" =>
                    /\ pc = "exited" /\ exit_code = 0 /\ loaded = NotLoaded
                    /\ "usage" \in log
             /\ argv[FirstEnding] = "version" =>
                    /\ pc = "exited" /\ exit_code = 0 /\ loaded = NotLoaded
                    /\ "usage" \notin log /\ "version" \in log
        ELSE IF Positions({"config"}) = {}
        THEN UsageAndFailure
        ELSE /\ exit_code = -1
             /\ "usage" \notin log
             /\ cfg_file_path = ConfigPath

\* an unrecognized flag after --config and --log-backend ended the program
C16_Witness ==
    /\ argv = <<"config", "log_stdout", "unknown">>
    /\ UsageAndFailure

\* the backend the last --log-backend of the command line names
RECURSIVE NamedBackend(_, _)
NamedBackend(args, none) ==
    IF args = <<>> THEN none
    ELSE IF args[Len(args)] = "log_syslog" THEN "syslog"
    ELSE IF args[Len(args)] = "log_stdout" THEN "stdout"
    ELSE NamedBackend(SubSeq(args, 1, Len(args) - 1), none)

\* handle_command_line_arguments returned to main()
ArgumentsAccepted == pc \notin {"handle_command_line_arguments", "exited"}

\* C17 as claimed: without --log-backend the backend after argument parsing
\* is stdout on a terminal and syslog otherwise; with --log-backend it is
\* the one named.
C17_Original ==
    ArgumentsAccepted =>
        log_backend = NamedBackend(argv, InitialLogBackend(stdout_isatty))

\* C17 as amended: without --log-backend the backend after argument parsing
\* is syslog, on a terminal or not (the terminal only chooses the backend
\* the log is opened with while the arguments are parsed); with
\* --log-backend it is the one named, the last one when it is given twice.
C17_BackendDefaultsToSyslog ==
    ArgumentsAccepted => log_backend = NamedBackend(argv, "syslog")

\* on a terminal, without --log-backend, the arguments were accepted
C17_Witness ==
    /\ ArgumentsAccepted
    /\ stdout_isatty
    /\ Positions({"log_syslog", "log_stdout"}) = {}
    /\ log_backend = "syslog"

\* the loader returned a MOTD buffer for a MOTD text the settings file holds
MotdConfigured ==
    /\ loaded.ret = 1
    /\ loaded.enable_motd # 0
    /\ cfg_file.motd.kind = "string"

\* C18: for a configured MOTD text s with MOTD enabled, the stored MOTD is
\* a terminated prefix of s of at most MAX_MOTD_LENGTH bytes, the terminator
\* counted: s itself when s and the terminator fit, and otherwise the first
\* MAX_MOTD_LENGTH - 1 characters of s followed by the terminator.
C18_MotdTerminatedPrefix ==
    MotdConfigured =>
        LET text == cfg_file.motd.val
            stored == loaded.motd.data
        IN /\ Len(stored) >= 1 /\ Len(stored) <= MAX_MOTD_LENGTH
           /\ stored[Len(stored)] = 0
           /\ \A i \in 1..(Len(stored) - 1) : stored[i] = text[i] /\ stored[i] # 0
           /\ Len(text) + 1 <= MAX_MOTD_LENGTH => stored = text \o <<0>>
           /\ Len(text) + 1 > MAX_MOTD_LENGTH =>
                  stored = SubSeq(text, 1, MAX_MOTD_LENGTH - 1) \o <<0>>
           /\ pc # "handle_command_line_arguments" /\ pc # "get_general_config" /\ pc # "exited"
                  => motd = loaded.motd

\* a text of exactly MAX_MOTD_LENGTH characters was stored without its last one
C18_Witness ==
    /\ MotdConfigured
    /\ Len(cfg_file.motd.val) = MAX_MOTD_LENGTH
    /\ Len(loaded.motd.data) = MAX_MOTD_LENGTH
    /\ loaded.motd.data[MAX_MOTD_LENGTH] = 0
    /\ loaded.motd.data[MAX_MOTD_LENGTH - 1] = cfg_file.motd.val[MAX_MOTD_LENGTH - 1]

\* bootstrap_from_config was called in this launch
BootstrapRan == bootstrap.ret # -1

\* the entries of the settings file's bootstrap_nodes list
ConfiguredNodes ==
    IF cfg_file.bootstrap_nodes.kind = "list" THEN cfg_file.bootstrap_nodes.val ELSE <<>>

\* an entry with the three settings, a key of the right length, a port in
\* range and an address that resolves with the IPv6 flag in force
Addable(node) ==
    /\ node.public_key.kind = "string" /\ node.port.kind = "int"
    /\ node.address.kind = "string"
    /\ Len(node.public_key.val) = 2 * crypto_box_PUBLICKEYBYTES
    /\ InPortRange(node.port.val)
    /\ DHT_bootstrap_from_address(node.address.val, enable_ipv6)

\* C11: bootstrap_from_config succeeds for every settings file that parses:
\* with no bootstrap_nodes setting or an empty list it succeeds without an
\* engine call; with invalid entries in the list every entry is still
\* processed, the entries after an invalid one included, and it succeeds;
\* it fails only when the file cannot be parsed.
C11_BootstrapSucceedsIfParsed ==
    BootstrapRan =>
        /\ bootstrap.ret \in {0, 1}
        /\ bootstrap.ret = 0 <=> "config_read_error" \in bootstrap.log
        /\ bootstrap.ret = 0 => pc = "exited" /\ exit_code = 1 /\ bootstrap.calls = <<>>
        /\ bootstrap.ret = 1 =>
               /\ Passed("bootstrap")
               /\ ConfiguredNodes = <<>> =>
                      bootstrap.calls = <<>> /\ bootstrap.outcomes = <<>>
               /\ Len(bootstrap.outcomes) = Len(ConfiguredNodes)
               /\ bootstrap.iterations = Len(ConfiguredNodes)
               /\ bootstrap.remaining = <<>>
               /\ \A i \in DOMAIN ConfiguredNodes :
                      /\ bootstrap.outcomes[i][1] = i - 1
                      /\ bootstrap.outcomes[i][2] = "added" <=> Addable(ConfiguredNodes[i])

\* the entry after an entry with a short key was added
C11_Witness ==
    /\ BootstrapRan
    /\ ConfiguredNodes = <<ShortKeyNode, GoodNode>>
    /\ bootstrap.ret = 1
    /\ bootstrap.outcomes = <<<<0, "invalid_public_key">>, <<1, "added">>>>
    /\ bootstrap.calls = <<GoodNode>>

\* a hexadecimal digit, as a character code
IsHexDigit(c) == c \in (48..57) \cup (65..70) \cup (97..102)

\* a string of exactly 2 x key-length hexadecimal characters
IsHexKey(key) ==
    /\ Len(key) = 2 * crypto_box_PUBLICKEYBYTES
    /\ \A i \in DOMAIN key : IsHexDigit(key[i])

\* C12: every entry handed to the engine's peer-seeding call has a public
\* key string of exactly 2 x key-length hexadecimal characters; an entry
\* whose key string has another length or holds a non-hex character is
\* skipped and never reaches the engine.
C12_OnlyHexKeysReachEngine ==
    BootstrapRan =>
        /\ \A i \in DOMAIN bootstrap.calls : IsHexKey(bootstrap.calls[i].public_key.val)
        /\ bootstrap.ret = 1 =>
               \A i \in DOMAIN ConfiguredNodes :
                   (/\ ConfiguredNodes[i].public_key.kind = "string"
                    /\ ~IsHexKey(ConfiguredNodes[i].public_key.val))
                       => bootstrap.outcomes[i][2] \in {"invalid_public_key", "no_port",
                                                        "no_address"}

\* the positions main() has in the launched process, the parent after a fork
ParentPcs == {"handle_command_line_arguments", "get_general_config", "check_port",
              "check_pid_file", "new_networking", "new_DHT", "new_onion", "set_motd",
              "manage_keys", "new_TCP_server", "bootstrap_from_config", "open_pid_file",
              "fork", "parent_write_pid", "exited"}

\* the process-id file holds what it held, then the digits of the child's id
PidAppended == pid_file' = [pid_file EXCEPT !.data = @ \o DecimalDigits(ChildPid(run))]

\* C13: after a successful fork the parent, and only the parent, writes the
\* child's process id to the open process-id file, exactly once, and exits
\* with status 0 without running the service loop; the child never writes to
\* the process-id file and is the only process that enters the service loop.
C13_ForkSplitsRoles ==
    /\ [](/\ pc \in ParentPcs
          /\ (cpc # "none") <=> Passed("fork")
          /\ Passed("fork") =>
                 \/ pc = "parent_write_pid" /\ "forked_successfully" \notin log
                 \/ pc = "exited" /\ exit_code = 0 /\ "forked_successfully" \in log
          /\ Passed("loop") <=> cpc \in LoopPcs)
    /\ [][run' = run =>
            /\ (pc = "parent_write_pid" /\ pc' # pc) =>
                   /\ PidAppended
                   /\ pc' = "exited" /\ exit_code' = 0
                   /\ cpc' = cpc
            /\ (Passed("fork") /\ pc' = pc) => pid_file' = pid_file
            /\ (cpc # "none" /\ cpc' # cpc) => pid_file' = pid_file]_vars

\* the parent wrote the id and exited 0 while the child runs the service loop
C13_Witness ==
    /\ run = 1
    /\ pc = "exited" /\ exit_code = 0
    /\ cpc \in LoopPcs
    /\ pid_file = File(DecimalDigits(ChildPid(1)))

\* C14: when fork, setsid or chdir fails, the process in which it fails
\* exits with a non-zero status and no process of that launch ever enters
\* the service loop.
C14_DaemonizeFailureIsFatal ==
    /\ "forking_failed" \in log =>
           /\ pc = "exited" /\ exit_code = 1
           /\ cpc = "none"
           /\ ~Passed("loop")
    /\ ("sid_creation_failure" \in log \/ "could_not_change_directory" \in log) =>
           /\ cpc = "exited" /\ child_exit_code = 1
           /\ pc \in {"parent_write_pid", "exited"}
           /\ ~Passed("loop")
    /\ (cpc = "exited" \/ (pc = "exited" /\ exit_code # 0)) => ~Passed("loop")

\* the child failed to create its session after the parent had exited 0
C14_Witness ==
    /\ "sid_creation_failure" \in log
    /\ cpc = "exited" /\ child_exit_code = 1
    /\ pc = "exited" /\ exit_code = 0

\* q begins with p
IsPrefix(p, q) == Len(p) <= Len(q) /\ SubSeq(q, 1, Len(p)) = p

\* C15: across launches the process-id file only grows: a launch creates it
\* when absent and never truncates or rewrites what earlier launches wrote,
\* each successful launch appends exactly one decimal process id, that of
\* its child, and a process-id file left by a prior run produces a warning
\* only, never a failure of startup.
C15_PidFileOnlyGrows ==
    [][/\ pid_file.exists => pid_file'.exists /\ IsPrefix(pid_file.data, pid_file'.data)
       /\ (~pid_file.exists /\ pid_file'.exists) =>
              /\ pc = "open_pid_file" /\ pc' = "fork"
              /\ pid_file'.data = <<>>
       /\ (pc = "open_pid_file" /\ pc' = "fork") =>
              /\ pid_file'.exists
              /\ pid_file'.data = pid_file.data
       /\ pid_file'.data # pid_file.data =>
              /\ pc = "parent_write_pid" /\ pc' = "exited" /\ exit_code' = 0
              /\ PidAppended
       /\ (pc = "parent_write_pid" /\ pc' = "exited") => PidAppended
       /\ (pc = "check_pid_file" /\ pc' # pc) =>
              /\ pc' = "new_networking" /\ exit_code' = -1
              /\ pid_file.exists <=> "pid_file_exists" \in log'
              /\ pid_file' = pid_file]_vars

\* a second launch appended its child's id to the file of the first
C15_Witness ==
    /\ run = 2
    /\ "pid_file_exists" \in log
    /\ pc = "exited" /\ exit_code = 0
    /\ pid_file = File(DecimalDigits(ChildPid(1)) \o DecimalDigits(ChildPid(2)))

\* every stage before the process-id file is opened has succeeded
PriorStagesSucceeded ==
    /\ cfg_file_path = ConfigPath
    /\ loaded.ret = 1
    /\ ~ListenPortInvalid(port)
    /\ net # "none" /\ dht.made /\ onion
    /\ enable_motd # 0 => "set_motd" \in log
    /\ KeysManaged
    /\ enable_tcp_relay # 0 => tcp_server.made
    /\ bootstrap.ret = 1
    /\ stages = SubSeq(StageOrder(enable_tcp_relay), 1, Len(stages))
    /\ Passed("bootstrap")

\* C19: the process-id file is opened for writing, and so possibly created,
\* only after every prior stage has succeeded: a process in which
\* configuration loading, the listen-port check, network, DHT or onion
\* construction, MOTD setup, key management, relay-server construction or
\* bootstrap-list processing fails exits without having created or modified
\* the process-id file.
C19_PidFileAfterAllStages ==
    [][/\ pid_file' # pid_file => PriorStagesSucceeded
       /\ (pc # "exited" /\ pc' = "exited" /\ ~PriorStagesSucceeded) =>
              /\ exit_code' # 0 \/ pc = "handle_command_line_arguments"
              /\ pid_file' = pid_file
       /\ (run' = run /\ ~PriorStagesSucceeded) => pid_file' = pid_file]_vars

\* the last stage before the process-id file failed and there is no such file
C19_Witness ==
    /\ pc = "exited" /\ exit_code = 1
    /\ "could_not_read_bootstrap_nodes" \in log
    /\ KeysManaged
    /\ ~pid_file.exists

\* both flags of the IPv4 fallback were on when the loader returned
FallbackConfigured == loaded.enable_ipv6 # 0 /\ loaded.enable_ipv4_fallback # 0

\* C20: new_networking is called at most twice per process; the second call
\* happens iff the first failed with enable_ipv6 and enable_ipv4_fallback
\* both true, and it asks for IPv4; a first failure without that
\* combination, or a failed second call, ends startup with a non-zero exit,
\* and there is no third call.
C20_OneFallback ==
    /\ net_attempts = Len(net_families)
    /\ net_attempts <= 2
    /\ (pc \notin {"handle_command_line_arguments", "get_general_config", "check_port",
                   "check_pid_file", "new_networking"} /\ loaded.ret = 1
            /\ ~ListenPortInvalid(port)) => net_attempts >= 1
    /\ net_attempts >= 1 => net_families[1] = Family(loaded.enable_ipv6)
    /\ net_attempts = 1 =>
           \/ net = net_families[1] /\ Passed("networking")
           \/ /\ ~FallbackConfigured
              /\ net = "none" /\ pc = "exited" /\ exit_code = 1
              /\ "could_not_initialize_networking" \in log
    /\ net_attempts = 2 =>
           /\ FallbackConfigured
           /\ net_families = <<"ipv6", "ipv4">>
           /\ "falling_back_to_ipv4" \in log
           /\ \/ net = "ipv4" /\ Passed("networking")
              \/ /\ net = "none" /\ pc = "exited" /\ exit_code = 1
                 /\ "could_not_fallback_to_ipv4" \in log
    /\ net = "none" => ~Passed("networking") /\ ~dht.made

\* the fallback was tried and failed too
C20_Witness ==
    /\ net_families = <<"ipv6", "ipv4">>
    /\ net = "none"
    /\ pc = "exited" /\ exit_code = 1

\* the calls one whole pass of the loop body makes, in order, given whether
\* the pass broadcasts and whether the relay server is advanced
TickCalls(sent, relay) ==
    <<"do_DHT">> \o (IF sent THEN <<"send_LANdiscovery">> ELSE <<>>)
                 \o (IF relay THEN <<"do_TCP_server">> ELSE <<>>)
                 \o <<"networking_poll", "check_connection", "usleep">>

\* the pass recorded in tick ran to its end
TickDone == tick # <<>> /\ tick[Len(tick)] = "usleep"

\* the passes the settings allow: with or without a broadcast, with the
\* relay server exactly when the settings enable it
AllowedTicks == {TickCalls(sent, loaded.enable_tcp_relay # 0) : sent \in BOOLEAN}

\* C21: every tick of the service loop makes its calls in the order engine,
\* LAN-discovery broadcast if due, relay server if and only if TCP relay is
\* enabled, network poll, connection check, sleep; after the sleep the next
\* tick begins, and a process in the loop stays in the loop and never exits.
C21_TickOrderNoExit ==
    /\ [](cpc \in LoopPcs =>
            /\ \E t \in AllowedTicks : IsPrefix(tick, t)
            /\ cpc = "do_DHT" => tick = <<>> \/ tick \in AllowedTicks
            /\ cpc = "LANdiscovery" => tick = <<"do_DHT">>
            /\ cpc = "networking_poll" =>
                   ("do_TCP_server" \in {tick[i] : i \in DOMAIN tick}
                       <=> loaded.enable_tcp_relay # 0)
            /\ cpc = "sleep" => tick[Len(tick)] = "check_connection"
            /\ child_exit_code = -1)
    /\ [][(run' = run /\ cpc \in LoopPcs) =>
            /\ cpc' \in LoopPcs
            /\ (cpc = "sleep" /\ cpc' # cpc) => cpc' = "do_DHT" /\ TickDone'
            /\ (cpc = "do_DHT" /\ cpc' # cpc) => tick' = <<"do_DHT">>]_vars

\* a whole tick that broadcast and, the relay being disabled, left the relay
\* server alone has ended and the next tick is about to begin
C21_Witness ==
    /\ cpc = "do_DHT"
    /\ loaded.enable_tcp_relay = 0
    /\ tick = TickCalls(TRUE, FALSE)

\* the timestamp the loop holds: that of the last broadcast, 0 before any
LastBroadcast == IF broadcasts = <<>> THEN 0 ELSE broadcasts[Len(broadcasts)]

\* the step of the loop body that decides on the broadcast
BroadcastStep == run' = run /\ cpc = "LANdiscovery" /\ cpc' # cpc

\* C22: a tick broadcasts a LAN-discovery packet if and only if LAN
\* discovery is enabled and at least the discovery interval has passed since
\* the recorded last broadcast (0 at first, so the first tick broadcasts);
\* a broadcast records the current time, two consecutive broadcasts are at
\* least an interval apart, and nothing is broadcast with discovery disabled.
C22_BroadcastWhenDue ==
    /\ [](/\ loaded.ret = 1 /\ loaded.enable_lan_discovery = 0 => broadcasts = <<>>
          /\ \A i \in 1..(Len(broadcasts) - 1) :
                 broadcasts[i + 1] - broadcasts[i] >= LAN_DISCOVERY_INTERVAL
          /\ Passed("loop") => last_LANdiscovery = LastBroadcast
          /\ (Passed("loop") /\ loaded.enable_lan_discovery # 0
                  /\ cpc \in LoopPcs \ {"LANdiscovery"} /\ tick # <<>>) => broadcasts # <<>>)
    /\ [][/\ BroadcastStep =>
               IF loaded.enable_lan_discovery # 0
                      /\ now - LastBroadcast >= LAN_DISCOVERY_INTERVAL
               THEN broadcasts' = Append(broadcasts, now) /\ last_LANdiscovery' = now
               ELSE broadcasts' = broadcasts /\ last_LANdiscovery' = last_LANdiscovery
          /\ (run' = run /\ ~BroadcastStep) =>
               broadcasts' = broadcasts
               /\ (Passed("loop") => last_LANdiscovery' = last_LANdiscovery)]_vars

\* the first tick broadcast and the next broadcast came an interval later,
\* after a tick that saw the clock half an interval on and did not broadcast
C22_Witness ==
    /\ broadcasts = <<StartTime, StartTime + LAN_DISCOVERY_INTERVAL>>
    /\ loaded.enable_lan_discovery # 0
    /\ last_LANdiscovery = StartTime + LAN_DISCOVERY_INTERVAL

\* the six checks of an entry in the order of the documentation, each with
\* whether the entry passes it; a check of a setting that is missing fails
EntryChecks(node) ==
    <<node.public_key.kind = "string",
      node.port.kind = "int",
      node.address.kind = "string",
      node.public_key.kind = "string"
          /\ Len(node.public_key.val) = 2 * crypto_box_PUBLICKEYBYTES,
      node.port.kind = "int" /\ InPortRange(node.port.val),
      node.address.kind = "string"
          /\ DHT_bootstrap_from_address(node.address.val, enable_ipv6)>>

\* what is logged for an entry that fails the k-th check
SkipReasons == <<"no_public_key", "no_port", "no_address", "invalid_public_key",
                 "invalid_port", "invalid_address">>

\* the reason of the first check the entry fails; "added" if it fails none
FirstFailure(node) ==
    LET F == {k \in 1..6 : ~EntryChecks(node)[k]} IN
      IF F = {} THEN "added" ELSE SkipReasons[CHOOSE k \in F : \A j \in F : k <= j]

\* the entry passes the five checks made before the engine is called
FiveChecksPass(node) == \A k \in 1..5 : EntryChecks(node)[k]

\* the bootstrap list was processed entry by entry
NodesProcessed == BootstrapRan /\ bootstrap.ret = 1 /\ ConfiguredNodes # <<>>

\* C23: the checks of a bootstrap entry run in the order public_key present,
\* port present, address present, key length, port in [1,65535], address
\* resolution; the entry is skipped with the reason of the first check it
\* fails; the engine's seeding call is made if and only if the first five
\* checks pass, and once per such entry.
C23_FirstFailedCheckDecides ==
    NodesProcessed =>
        /\ Len(bootstrap.outcomes) = Len(ConfiguredNodes)
        /\ \A i \in DOMAIN ConfiguredNodes :
               bootstrap.outcomes[i][2] = FirstFailure(ConfiguredNodes[i])
        /\ bootstrap.calls = SelectSeq(ConfiguredNodes, FiveChecksPass)

\* with IPv6 off: an entry with a short key and port 0 was skipped for its
\* key; an entry whose address does not resolve reached the engine once
C23_Witness ==
    /\ NodesProcessed
    /\ enable_ipv6 = 0
    /\ ConfiguredNodes = <<ShortKeyPortZeroNode, V6Node>>
    /\ bootstrap.outcomes = <<<<0, "invalid_public_key">>, <<1, "invalid_address">>>>
    /\ bootstrap.calls = <<V6Node>>

\* C24: a bootstrap list of n entries is processed entry by entry in the
\* order of declaration, each entry once; the head of the working list is
\* removed after each entry, added or skipped; the k-th entry processed is
\* reported under index k-1; the loop ends after n passes with the working
\* list empty.
C24_ListConsumedInOrder ==
    NodesProcessed =>
        LET n == Len(ConfiguredNodes) IN
          /\ bootstrap.iterations = n
          /\ bootstrap.remaining = <<>>
          /\ bootstrap.lengths = [k \in 1..n |-> n - k]
          /\ bootstrap.outcomes =
                 [k \in 1..n |-> <<k - 1, FirstFailure(ConfiguredNodes[k])>>]

\* an entry added, then an entry skipped: indices 0 and 1, the working list
\* one entry shorter after each
C24_Witness ==
    /\ NodesProcessed
    /\ ConfiguredNodes = <<GoodNode, NoKeyNode>>
    /\ bootstrap.outcomes = <<<<0, "added">>, <<1, "no_public_key">>>>
    /\ bootstrap.lengths = <<1, 0>>
    /\ bootstrap.iterations = 2

\* a key file that holds less than a keypair
PartialKeyFile(file) == file.exists /\ Len(file.data) < KEYS_SIZE

\* the step of a launch in which manage_keys runs
ManageKeysStep == run' = run /\ pc = "manage_keys" /\ pc' # pc

\* what a save cut short after all but one byte leaves of the keypair the
\* engine generated from a seed
CutShort(seed) ==
    File(SubSeq(KeysBuffer(FreshPublicKey(seed), FreshSecretKey(seed)), 1, KEYS_SIZE - 1))

LaunchReportedSuccess ==
    /\ Passed("fork")
    /\ pc = "exited" /\ exit_code = 0
    /\ "forked_successfully" \in log

\* C26: when the launching process has written a process id to the
\* process-id file and exited with status 0, the process of that id does not
\* end during daemonization: it is on its way to the service loop or in it.
C26_RecordedPidReachesLoop ==
    LaunchReportedSuccess =>
        /\ cpc # "exited"
        /\ child_exit_code = -1
        /\ "sid_creation_failure" \notin log
        /\ "could_not_change_directory" \notin log

====
